---- MODULE Spec2Model ----
(***************************************************************************)
(* Model of the Epicor MCP server core: the query-safety gate, the query   *)
(* executor with its single connection (src/epicor-mcp/db.py) and the      *)
(* metadata cache (src/epicor-mcp/metadata.py); and the retry loop of the  *)
(* standalone server (src/tools/epicor-mcp/server.py).                     *)
(*                                                                         *)
(* SQL text is a sequence of one-character strings, so that the regular    *)
(* expressions of db.py are modelled character by character.               *)
(***************************************************************************)
EXTENDS Integers, Sequences, FiniteSets, TLC

(***************************************************************************)
(* Bounds of the model.                                                    *)
(***************************************************************************)
\* lexemes per statement text in the validation specification
MaxValLex == 4
\* lexemes per statement text in the row-cap injection specification
MaxInjLex == 4
\* lexemes per statement text in the executor specification
MaxExecLex == 2
\* the larger of the two row caps the injection specification tries
MaxCap == 10
\* calls made on one EpicorDB object in the executor specification
MaxCalls == 2
\* rows of the table the modelled database answers from
TableRows == 3
\* rows the foreign-key catalog query returns
MaxFkRows == 2
\* calls of ensure_loaded made in all
MaxEnsureCalls == 3
\* lookups: the largest max_depth and limit arguments, the tables in the
\* middle of the fan, the runs of _load_tables before the load completed,
\* and the largest set whose every iteration order is tried
MaxDepthArg == 3
LargeDepthArg == 1000
MaxSyncRows == 2
SyncTableRows == 2
MaxLimitArg == 3
FanWidth == 11
MaxTableLoads == 2
MaxPermuted == 4

(***************************************************************************)
(* Characters and strings.                                                 *)
(***************************************************************************)
UpperLetters ==
    <<"A","B","C","D","E","F","G","H","I","J","K","L","M",
      "N","O","P","Q","R","S","T","U","V","W","X","Y","Z">>

LowerLetters ==
    <<"a","b","c","d","e","f","g","h","i","j","k","l","m",
      "n","o","p","q","r","s","t","u","v","w","x","y","z">>

DigitChars == <<"0","1","2","3","4","5","6","7","8","9">>

Range(f) == {f[i] : i \in DOMAIN f}

UpperSet == Range(UpperLetters)
LowerSet == Range(LowerLetters)
DigitSet == Range(DigitChars)

\* \w of the re module on ASCII text
WordSet == UpperSet \cup LowerSet \cup DigitSet \cup {"_"}
IsWord(c) == c \in WordSet

\* \s of the re module on ASCII text
SpaceSet == {" ", "\n", "\t", "\r"}
IsSpace(c) == c \in SpaceSet

IsDigit(c) == c \in DigitSet

\* str.upper() on one character
UpTable == [c \in LowerSet |-> UpperLetters[CHOOSE i \in 1..26 : LowerLetters[i] = c]]
UpChar(c) == IF c \in LowerSet THEN UpTable[c] ELSE c

\* str.upper()
Upper(s) == [i \in 1..Len(s) |-> UpChar(s[i])]

\* s[i-1:] starts with w, ignoring case (positions are 1-based)
MatchAtCI(s, i, w) ==
    /\ i >= 1
    /\ i + Len(w) - 1 <= Len(s)
    /\ \A k \in 1..Len(w) : UpChar(s[i + k - 1]) = w[k]

\* s[i-1:] starts with w exactly
MatchAt(s, i, w) ==
    /\ i >= 1
    /\ i + Len(w) - 1 <= Len(s)
    /\ \A k \in 1..Len(w) : s[i + k - 1] = w[k]

\* \b between positions i-1 and i of s (1-based; i = Len(s)+1 is the end)
BoundaryAt(s, i) ==
    LET before == i > 1 /\ i - 1 <= Len(s) /\ IsWord(s[i - 1])
        after  == i >= 1 /\ i <= Len(s) /\ IsWord(s[i])
    IN  before # after

\* \bW\b matches at position i of s, ignoring case (W a word of word characters)
WordAtCI(s, i, w) ==
    /\ MatchAtCI(s, i, w)
    /\ BoundaryAt(s, i)
    /\ BoundaryAt(s, i + Len(w))

\* s[i-1:]
From(s, i) == SubSeq(s, i, Len(s))

\* s[:i]
UpTo(s, i) == SubSeq(s, 1, i)

RECURSIVE LStrip(_)
LStrip(s) == IF s # <<>> /\ IsSpace(s[1]) THEN LStrip(From(s, 2)) ELSE s

RECURSIVE RStrip(_)
RStrip(s) ==
    IF s # <<>> /\ IsSpace(s[Len(s)]) THEN RStrip(UpTo(s, Len(s) - 1)) ELSE s

\* str.strip()
Strip(s) == RStrip(LStrip(s))

\* str(n) for n >= 0, as f"{max_rows}" formats it
RECURSIVE IntToStr(_)
IntToStr(n) ==
    IF n < 10 THEN <<DigitChars[n + 1]>>
    ELSE IntToStr(n \div 10) \o <<DigitChars[(n % 10) + 1]>>

\* every text made of at most n lexemes of the set lex
RECURSIVE TextsOf(_, _)
TextsOf(lex, n) ==
    IF n = 0 THEN {<<>>}
    ELSE LET shorter == TextsOf(lex, n - 1)
         IN  shorter \cup {t \o l : t \in shorter, l \in lex}

(***************************************************************************)
(* db.py: constants.                                                       *)
(***************************************************************************)
_BLOCKED_KEYWORDS ==
    { <<"I","N","S","E","R","T">>,
      <<"U","P","D","A","T","E">>,
      <<"D","E","L","E","T","E">>,
      <<"D","R","O","P">>,
      <<"C","R","E","A","T","E">>,
      <<"A","L","T","E","R">>,
      <<"T","R","U","N","C","A","T","E">>,
      <<"E","X","E","C">>,
      <<"E","X","E","C","U","T","E">>,
      <<"G","R","A","N","T">>,
      <<"R","E","V","O","K","E">>,
      <<"M","E","R","G","E">> }

DEFAULT_MAX_ROWS == 500
ABSOLUTE_MAX_ROWS == 10000

KwSelect == <<"S","E","L","E","C","T">>
KwWith == <<"W","I","T","H">>
KwTop == <<"T","O","P">>

(***************************************************************************)
(* db.py: _strip_comments, _validate_readonly.                             *)
(***************************************************************************)
\* position of the first "\n" at or after i, Len(s)+1 when there is none
LineEnd(s, i) ==
    IF \E j \in i..Len(s) : s[j] = "\n"
    THEN CHOOSE j \in i..Len(s) : s[j] = "\n" /\ \A k \in i..(j - 1) : s[k] # "\n"
    ELSE Len(s) + 1

\* re.sub(r"--[^\n]*", "", sql), scanning from position i
RECURSIVE StripLineFrom(_, _)
StripLineFrom(s, i) ==
    IF i > Len(s) THEN <<>>
    ELSE IF MatchAt(s, i, <<"-", "-">>)
         THEN StripLineFrom(s, LineEnd(s, i + 2))
         ELSE <<s[i]>> \o StripLineFrom(s, i + 1)

\* position of the first "*/" at or after i, 0 when there is none
BlockClose(s, i) ==
    IF \E j \in i..Len(s) : MatchAt(s, j, <<"*", "/">>)
    THEN CHOOSE j \in i..Len(s) :
            /\ MatchAt(s, j, <<"*", "/">>)
            /\ \A k \in i..(j - 1) : ~MatchAt(s, k, <<"*", "/">>)
    ELSE 0

\* re.sub(r"/\*.*?\*/", "", sql, flags=re.DOTALL), scanning from position i
RECURSIVE StripBlockFrom(_, _)
StripBlockFrom(s, i) ==
    IF i > Len(s) THEN <<>>
    ELSE IF MatchAt(s, i, <<"/", "*">>) /\ BlockClose(s, i + 2) # 0
         THEN StripBlockFrom(s, BlockClose(s, i + 2) + 2)
         ELSE <<s[i]>> \o StripBlockFrom(s, i + 1)

_strip_comments(sql) == StripBlockFrom(StripLineFrom(sql, 1), 1)

\* _BLOCKED_PATTERN.search(s) finds a match
BlockedIn(s) ==
    \E i \in 1..Len(s) : \E w \in _BLOCKED_KEYWORDS : WordAtCI(s, i, w)

\* a faulty _validate_readonly: _BLOCKED_PATTERN without re.IGNORECASE
ValidateCaseSensitive(sql) ==
    LET c == _strip_comments(sql)
    IN  \E i \in 1..Len(c) : \E w \in _BLOCKED_KEYWORDS :
           MatchAt(c, i, w) /\ BoundaryAt(c, i) /\ BoundaryAt(c, i + Len(w))

\* _validate_readonly(sql) raises ValueError
_validate_readonly(sql) == BlockedIn(_strip_comments(sql))

(***************************************************************************)
(* db.py: _inject_top.                                                     *)
(***************************************************************************)
\* the position just after the run of \s that starts at i
RECURSIVE SkipSpaces(_, _)
SkipSpaces(s, i) ==
    IF i <= Len(s) /\ IsSpace(s[i]) THEN SkipSpaces(s, i + 1) ELSE i

\* \bTOP\s+\d+ matches at position i of s, ignoring case
TopAt(s, i) ==
    /\ MatchAtCI(s, i, KwTop)
    /\ BoundaryAt(s, i)
    /\ LET j == SkipSpaces(s, i + 3)
       IN  j > i + 3 /\ j <= Len(s) /\ IsDigit(s[j])

\* re.search(r"\bTOP\s+\d+", s, re.IGNORECASE) finds a match
HasTop(s) == \E i \in 1..Len(s) : TopAt(s, i)

\* the positions where \bSELECT\b matches, ignoring case
SelectPositions(s) == {i \in 1..Len(s) : WordAtCI(s, i, KwSelect)}

SetMax(S) == CHOOSE x \in S : \A y \in S : y <= x
SetMin(S) == CHOOSE x \in S : \A y \in S : x <= y

\* f" TOP {max_rows}"
TopClause(max_rows) == <<" ">> \o KwTop \o <<" ">> \o IntToStr(max_rows)

\* stripped[:pos] + f" TOP {max_rows}" + stripped[pos:]
InsertTop(stripped, pos, max_rows) ==
    UpTo(stripped, pos) \o TopClause(max_rows) \o From(stripped, pos + 1)

\* a faulty _inject_top: the existing TOP clause is not looked for
InjectTopNoSkip(sql, max_rows) ==
    LET stripped == Strip(sql)
    IN  IF MatchAt(Upper(stripped), 1, KwWith)
        THEN IF SelectPositions(stripped) # {}
             THEN InsertTop(stripped, SetMax(SelectPositions(stripped)) + 5, max_rows)
             ELSE sql
        ELSE IF WordAtCI(stripped, 1, KwSelect)
             THEN InsertTop(stripped, 6, max_rows)
             ELSE sql

\* a faulty _inject_top: the cap is put into the comment-stripped copy
InjectTopOfStripped(sql, max_rows) ==
    LET stripped == Strip(_strip_comments(sql))
    IN  IF HasTop(stripped) THEN sql
        ELSE IF MatchAtCI(stripped, 1, KwSelect) /\ BoundaryAt(stripped, 7)
             THEN InsertTop(stripped, 6, max_rows)
             ELSE sql

_inject_top(sql, max_rows) ==
    LET stripped == Strip(sql)
    IN  IF HasTop(stripped) THEN sql
        ELSE IF MatchAt(Upper(stripped), 1, KwWith)
             THEN IF SelectPositions(stripped) # {}
                  THEN InsertTop(stripped,
                                 SetMax(SelectPositions(stripped)) + 5, max_rows)
                  ELSE sql
             ELSE IF MatchAtCI(stripped, 1, KwSelect) /\ BoundaryAt(stripped, 7)
                  THEN InsertTop(stripped, 6, max_rows)
                  ELSE sql

(***************************************************************************)
(* The database's reading of a statement (pytds / SQL Server, reached      *)
(* through cur.execute): where its comments and string literals are, which *)
(* SELECT is the outer one, and how many rows it answers with.             *)
(***************************************************************************)
\* position of the first "'" at or after i, 0 when there is none
QuoteClose(s, i) ==
    IF \E j \in i..Len(s) : s[j] = "'"
    THEN CHOOSE j \in i..Len(s) : s[j] = "'" /\ \A k \in i..(j - 1) : s[k] # "'"
    ELSE 0

\* The statement as the database lexes it from position i: a line comment
\* (-- to the end of the line) and a block comment (/* to the next */, or to
\* the end of the text) each read as one space; a comment marker inside a
\* string literal is text of the literal.  keep: string literals are kept
\* as written; otherwise each is reduced to its two quotes.
RECURSIVE DbLexFrom(_, _, _)
DbLexFrom(s, i, keep) ==
    IF i > Len(s) THEN <<>>
    ELSE IF MatchAt(s, i, <<"-", "-">>)
         THEN <<" ">> \o DbLexFrom(s, LineEnd(s, i + 2), keep)
    ELSE IF MatchAt(s, i, <<"/", "*">>)
         THEN IF BlockClose(s, i + 2) = 0 THEN <<" ">>
              ELSE <<" ">> \o DbLexFrom(s, BlockClose(s, i + 2) + 2, keep)
    ELSE IF s[i] = "'"
         THEN LET q == QuoteClose(s, i + 1)
                  e == IF q = 0 THEN Len(s) ELSE q
              IN  (IF keep THEN SubSeq(s, i, e) ELSE <<"'", "'">>)
                  \o DbLexFrom(s, e + 1, keep)
    ELSE <<s[i]>> \o DbLexFrom(s, i + 1, keep)

\* every block comment and every string literal from position i on is closed
RECURSIVE DbLexOkFrom(_, _)
DbLexOkFrom(s, i) ==
    IF i > Len(s) THEN TRUE
    ELSE IF MatchAt(s, i, <<"-", "-">>) THEN DbLexOkFrom(s, LineEnd(s, i + 2))
    ELSE IF MatchAt(s, i, <<"/", "*">>)
         THEN /\ BlockClose(s, i + 2) # 0
              /\ DbLexOkFrom(s, BlockClose(s, i + 2) + 2)
    ELSE IF s[i] = "'"
         THEN /\ QuoteClose(s, i + 1) # 0
              /\ DbLexOkFrom(s, QuoteClose(s, i + 1) + 1)
    ELSE DbLexOkFrom(s, i + 1)

\* the database can lex the statement: nothing in it is left unclosed
DbLexOk(sql) == DbLexOkFrom(sql, 1)

\* the statement without its comments, string literals kept
DbStripComments(sql) == DbLexFrom(sql, 1, TRUE)

\* the statement without its comments and without the text of its literals
DbCode(sql) == DbLexFrom(sql, 1, FALSE)

\* parenthesis depth of position i of the code text c
Depth(c, i) ==
    Cardinality({j \in 1..(i - 1) : c[j] = "("})
  - Cardinality({j \in 1..(i - 1) : c[j] = ")"})

\* the parentheses of the code text c match
Balanced(c) ==
    /\ Depth(c, Len(c) + 1) = 0
    /\ \A i \in 1..Len(c) : Depth(c, i) >= 0

\* the outer SELECT of the code text c: the first SELECT keyword at the least
\* parenthesis depth; 0 when the statement has no SELECT keyword
OuterSelect(c) ==
    LET ps == SelectPositions(c)
    IN  IF ps = {} THEN 0
        ELSE LET least == SetMin({Depth(c, p) : p \in ps})
             IN  SetMin({p \in ps : Depth(c, p) = least})

\* the value of the digits that start at position i of s
RECURSIVE DigitsValue(_, _, _)
DigitsValue(s, i, acc) ==
    IF i <= Len(s) /\ IsDigit(s[i])
    THEN DigitsValue(s, i + 1,
            acc * 10 + (CHOOSE d \in 0..9 : DigitChars[d + 1] = s[i]))
    ELSE acc

\* the row limit the outer SELECT of the code text c carries in a TOP clause
\* right after the keyword, -1 when it carries none
RowLimit(c) ==
    LET p == OuterSelect(c)
        t == SkipSpaces(c, p + 6)
    IN  IF p # 0 /\ TopAt(c, t) THEN DigitsValue(c, SkipSpaces(c, t + 3), 0)
        ELSE -1

Min(a, b) == IF a <= b THEN a ELSE b

\* rows the database answers the statement with: all the rows of the table,
\* or as many as the TOP clause of the outer SELECT allows
DbRows(sql) ==
    LET limit == RowLimit(DbCode(sql))
    IN  IF limit = -1 THEN TableRows ELSE Min(limit, TableRows)

(***************************************************************************)
(* metadata.py: the catalog and the empty cache.                           *)
(***************************************************************************)
\* The rows of the table catalog query, ORDER BY TABLE_SCHEMA, TABLE_NAME.
\* A table is written <<schema, name>>; TableInfo.full_name identifies it.
CatalogTables ==
    << <<"Dbo", "Part">>, <<"Erp", "Customer">>, <<"Erp", "Part">> >>

FullNames == Range(CatalogTables)
Schemas == {t[1] : t \in FullNames}
Names == {t[2] : t \in FullNames}

FkNames == <<"FK_A", "FK_B">>

\* a row of the foreign-key catalog query, the column pair of ordinal k
FkRow(n, p, c, k) ==
    [fk_name |-> n, parent |-> p, child |-> c,
     pc |-> <<"ParentCol", k>>, cc |-> <<"ChildCol", k>>]

\* The results the foreign-key catalog query can have, of at most n rows,
\* ORDER BY fk.name, fkc.constraint_column_id: the names never go down; the
\* rows of one constraint carry the ordinals 1, 2, ... in order; two
\* constraints of one name belong to tables of different schemas.
RECURSIVE FkCatalogs(_)
FkCatalogs(n) ==
    IF n = 0 THEN {<<>>}
    ELSE LET shorter == FkCatalogs(n - 1)
             more == { Append(rs, FkRow(FkNames[i], p, c, k)) :
                         rs \in {x \in shorter : Len(x) = n - 1},
                         i \in 1..Len(FkNames),
                         p \in FullNames, c \in FullNames, k \in 1..n }
             sorted(rs) ==
                 \/ Len(rs) = 1 /\ rs[1].pc[2] = 1
                 \/ /\ Len(rs) > 1
                    /\ LET a == rs[Len(rs) - 1]
                           b == rs[Len(rs)]
                       IN  \/ /\ a.fk_name = b.fk_name
                              /\ \/ /\ b.pc[2] = a.pc[2] + 1
                                    /\ b.parent = a.parent
                                    /\ b.child = a.child
                                 \/ /\ b.pc[2] = 1 /\ a.pc[2] = 1
                                    /\ b.parent[1] # a.parent[1]
                           \/ /\ \E i, j \in 1..Len(FkNames) :
                                    /\ i < j
                                    /\ FkNames[i] = a.fk_name
                                    /\ FkNames[j] = b.fk_name
                              /\ b.pc[2] = 1
         IN  shorter \cup {rs \in more : sorted(rs)}

\* MetadataCache.__init__
EmptyByName == [n \in Names |-> <<>>]
EmptyBySchema == [s \in Schemas |-> <<>>]
EmptyByTable == [t \in FullNames |-> <<>>]
EmptyAdjacency == [t \in FullNames |-> {}]


(***************************************************************************)
(* State.                                                                  *)
(***************************************************************************)
VARIABLES
    \* the safety gate applied to one statement text
    gsql,        \* the statement text given to the gate
    gpc,         \* "validate" | "inject" | "again" | "done" | "off"
    verdict,     \* "none" | "ok" | "ValueError": what _validate_readonly did
    cap1,        \* the row cap of the first injection, 0 before it
    out1,        \* _inject_top(gsql, cap1)
    out2,        \* _inject_top(out1, cap2) for the cap2 of the second injection
    \* one EpicorDB object and the call in progress on it
    pc,          \* "idle" | "validate" | "inject" | "ensure" | "submit"
                 \* | "reconnect" | "done" | "off"
    kind,        \* "execute" | "execute_raw"
    sql,         \* the sql argument of the call
    max_rows,    \* the max_rows argument of the call
    cap,         \* max_rows once clamped, 0 when no cap is injected
    stmt,        \* the local sql that _execute_with_retry is given
    conn,        \* self._conn: "none" | "live" | "dead" (a handle whose
                 \* connection is known to be lost)
    connAtStart, \* self._conn when the call began
    attempt,     \* the loop variable of _execute_with_retry
    sent,        \* the statements the call has submitted so far, in order
    reconnects,  \* _reconnect calls made by the call so far
    retries,     \* _reconnect calls made by the except clause of the call
    ensured,     \* _ensure_connection calls made by the call so far
    firstFail,   \* how the first submission of the call failed, "none" if not
    lastFail,    \* how the latest submission of the call failed, "none" if not
    outcome,     \* "none" | "ok" | "ValueError" | "DbError" (a database
                 \* error that is not of the connection class)
                 \* | "ConnectRuntimeError" (raised by _connect)
                 \* | "QueryRuntimeError" (raised after the retry failed)
    rows,        \* number of rows the call returned
    calls,       \* calls begun on the object
    via,         \* "direct" | "execute_query": who called execute
    requested,   \* the max_rows argument given to the execute_query tool
    unclosed,    \* handles that _connect has opened and on which close()
                 \* has not been called
    peakUnclosed,\* the largest value unclosed has had at any instant
    lastClose,   \* what close() did in the call: "none" | "ok" | "raised"
    clean,       \* in the call so far every pytds.connect succeeded and
                 \* every submission on a live handle returned its rows
    \* the MetadataCache object, the catalog it loads and its callers
    catFks,      \* the rows the foreign-key catalog query returns
    loaded,      \* self._loaded
    tables,      \* self._tables: the full names that are keys of the dict
    byName,      \* self._tables_by_name: bare name -> list of tables
    bySchema,    \* self._tables_by_schema: schema -> list of tables
    fks,         \* self._fks
    byParent,    \* self._fks_by_parent: full name -> list of foreign keys
    byChild,     \* self._fks_by_child: full name -> list of foreign keys
    adjacency,   \* self._adjacency: full name -> set of full names
    cpc,         \* where each caller of ensure_loaded stands
    crows,       \* each caller's local rows, the result of its latest query
    tableQueries,\* table catalog queries issued so far
    fkQueries,   \* foreign-key catalog queries issued so far
    qfails,      \* catalog queries that raised so far
    ecalls,      \* ensure_loaded calls begun so far
    tlist,       \* list(self._tables.values()): the tables in the order
                 \* their full names were first inserted into the dict
    \* one lookup on the loaded cache
    lpc,         \* "idle" | "bfs" | "done" | "off"
    larg,        \* the method called and its arguments
    lstart,      \* find_join_path: src, <<>> for None, else <<table>>
    lend,        \* find_join_path: dst, <<>> for None, else <<table>>
    queue,       \* find_join_path: the queue of [path, depth] entries
    visited,     \* find_join_path: the visited set
    paths,       \* find_join_path: the paths recorded so far
    pops,        \* find_join_path: queue.pop(0) calls made so far
    lresult,     \* what the method returned: a list
    \* one call of _execute_sync of the standalone server
    spc,         \* "idle" | "connect" | "execute" | "close" | "except" |
                 \* "done" | "off"
    smax,        \* the max_rows argument
    sattempt,    \* attempt, the loop variable
    shandle,     \* conn of this attempt: "none" | "open" | "closed" |
                 \* "close_raised"
    sopened,     \* connections _connect has opened in the call
    sclosed,     \* conn.close() calls that returned
    scloseRaised,  \* conn.close() calls that raised
    ssubmits,    \* cur.execute(sql) calls made in the call
    srows,       \* rows fetched in this attempt, -1 if none were
    sfirst,      \* rows fetched by the first attempt whose execute and
                 \* fetchmany succeeded, -1 if there was none yet
    sfirstAt,    \* the number of that attempt, 0 if there was none yet
    sresult,     \* the rows returned, -1 if none were
    soutcome     \* "none" | "rows" | "ConnectionError"

gateVars == <<gsql, gpc, verdict, cap1, out1, out2>>
execVars == <<pc, kind, sql, max_rows, cap, stmt, conn, connAtStart, attempt,
              sent, reconnects, retries, ensured, firstFail, lastFail,
              outcome, rows, calls, via, requested, unclosed, peakUnclosed,
              lastClose, clean>>
metaVars == <<catFks, loaded, tables, byName, bySchema, fks, byParent, byChild,
              adjacency, cpc, crows, tableQueries, fkQueries, qfails, ecalls,
              tlist>>
lookVars == <<lpc, larg, lstart, lend, queue, visited, paths, pops, lresult>>
syncVars == <<spc, smax, sattempt, shandle, sopened, sclosed, scloseRaised,
              ssubmits, srows, sfirst, sfirstAt, sresult, soutcome>>
vars == <<gateVars, execVars, metaVars, lookVars, syncVars>>

GateOff ==
    /\ gsql = <<>> /\ gpc = "off" /\ verdict = "none"
    /\ cap1 = 0 /\ out1 = <<>> /\ out2 = <<>>

ExecOff ==
    /\ pc = "off" /\ kind = "execute" /\ sql = <<>> /\ max_rows = 0 /\ cap = 0
    /\ stmt = <<>> /\ conn = "none" /\ connAtStart = "none" /\ attempt = 0
    /\ sent = <<>> /\ reconnects = 0 /\ retries = 0 /\ ensured = 0
    /\ firstFail = "none" /\ lastFail = "none"
    /\ outcome = "none" /\ rows = 0 /\ calls = 0
    /\ via = "direct" /\ requested = 0
    /\ unclosed = 0 /\ peakUnclosed = 0 /\ lastClose = "none"
    /\ clean = TRUE

SyncOff ==
    /\ spc = "off" /\ smax = 0 /\ sattempt = 0 /\ shandle = "none"
    /\ sopened = 0 /\ sclosed = 0 /\ scloseRaised = 0 /\ ssubmits = 0
    /\ srows = -1 /\ sfirst = -1 /\ sfirstAt = 0
    /\ sresult = -1 /\ soutcome = "none"

Callers == 1..2

MetaOff ==
    /\ catFks = <<>> /\ loaded = FALSE /\ tables = {}
    /\ byName = EmptyByName /\ bySchema = EmptyBySchema
    /\ fks = <<>> /\ byParent = EmptyByTable /\ byChild = EmptyByTable
    /\ adjacency = EmptyAdjacency
    /\ cpc = [c \in Callers |-> "off"] /\ crows = [c \in Callers |-> <<>>]
    /\ tableQueries = 0 /\ fkQueries = 0 /\ qfails = 0 /\ ecalls = 0
    /\ tlist = <<>>

\* the arguments of no call
NoArgs ==
    [op |-> "none", a |-> <<>>, sa |-> "<None>", b |-> <<>>, sb |-> "<None>",
     n |-> 0]

LookOff ==
    /\ lpc = "off" /\ larg = NoArgs /\ lstart = <<>> /\ lend = <<>>
    /\ queue = <<>> /\ visited = {} /\ paths = <<>> /\ pops = 0
    /\ lresult = <<>>

(***************************************************************************)
(* The read-only validation applied to every text of a small alphabet of   *)
(* lexemes: a denylisted keyword in two spellings, a word character, the   *)
(* comment markers, the quote, the space and the line break.               *)
(***************************************************************************)
ValLexemes ==
    { <<"D","R","O","P">>, <<"e","x","e","c">>, <<"x">>,
      <<"-","-">>, <<"/","*">>, <<"*","/">>, <<"'">>, <<" ">>, <<"\n">> }

ValTexts == TextsOf(ValLexemes, MaxValLex)

InitValidate ==
    /\ gsql \in ValTexts
    /\ gpc = "validate" /\ verdict = "none"
    /\ cap1 = 0 /\ out1 = <<>> /\ out2 = <<>>
    /\ ExecOff
    /\ MetaOff
    /\ LookOff
    /\ SyncOff

\* EpicorDB._validate_readonly(gsql)
ValidateReadonly ==
    /\ gpc = "validate"
    /\ verdict' = IF _validate_readonly(gsql) THEN "ValueError" ELSE "ok"
    /\ gpc' = "done"
    /\ UNCHANGED <<gsql, cap1, out1, out2, execVars, metaVars,
                   lookVars, syncVars>>

NextValidate == ValidateReadonly

SpecValidate == InitValidate /\ [][NextValidate]_vars

(***************************************************************************)
(* The row-cap injection applied, twice in a row, to every text of a small *)
(* alphabet of lexemes.                                                    *)
(***************************************************************************)
InjLexemes ==
    { KwSelect, KwWith, KwTop, <<"1">>, <<" ">>, <<"(">>, <<")">>,
      <<"(", "s", "e", "l", "e", "c", "t", ")">> }

InjTexts == TextsOf(InjLexemes, MaxInjLex)

Caps == {1, MaxCap}

InitInject ==
    /\ gsql \in InjTexts
    /\ gpc = "inject" /\ verdict = "none"
    /\ cap1 = 0 /\ out1 = <<>> /\ out2 = <<>>
    /\ ExecOff
    /\ MetaOff
    /\ LookOff
    /\ SyncOff

\* EpicorDB._inject_top(gsql, n)
InjectTop ==
    /\ gpc = "inject"
    /\ \E n \in Caps :
          /\ cap1' = n
          /\ out1' = _inject_top(gsql, n)
    /\ gpc' = "again"
    /\ UNCHANGED <<gsql, verdict, out2, execVars, metaVars,
                   lookVars, syncVars>>

\* EpicorDB._inject_top(out1, m), on the result of the first injection
InjectTopAgain ==
    /\ gpc = "again"
    /\ \E m \in Caps : out2' = _inject_top(out1, m)
    /\ gpc' = "done"
    /\ UNCHANGED <<gsql, verdict, cap1, out1, execVars, metaVars,
                   lookVars, syncVars>>

NextInject == InjectTop \/ InjectTopAgain

SpecInject == InitInject /\ [][NextInject]_vars

(***************************************************************************)
(* The query executor: calls of execute and execute_raw, one after the     *)
(* other, on one EpicorDB object.  The database and the network decide how *)
(* a connect and a submission end.                                         *)
(***************************************************************************)
ExecLexemes ==
    { <<"S","E","L","E","C","T"," ","*">>,
      <<"/","*","c","*","/">>,
      <<"D","r","o","p">>,
      <<" ">>,
      <<"'","T","O","P"," ","1","'">>,
      <<" ","T","O","P"," ","2">> }

ExecTexts == TextsOf(ExecLexemes, MaxExecLex)

\* the max_rows arguments tried: none, small ones, the default, one above
\* the maximum
MaxRowsArgs == {0, 1, 2, DEFAULT_MAX_ROWS, ABSOLUTE_MAX_ROWS + 1}

\* how a submission can end: (columns, rows) returned, a connection-class
\* error (pytds.ClosedConnectionError, OSError, ConnectionError), or another
\* error of the database (syntax, permission)
SubmitResults == {"ok", "conn", "other"}

\* for attempt in range(2)
RetryAttempts == 2

\* except (pytds.ClosedConnectionError, OSError, ConnectionError)
\* a faulty except clause: every error is caught
CaughtAlways(r) == r # "ok"

Caught(r) == r = "conn"

\* if attempt == 0: reconnect and go round the loop again
\* a faulty test: the reconnect is made after every attempt
RetryEveryAttempt(a) == a >= 0

\* a faulty test: the first failure is raised to the caller at once
RetryNever(a) == FALSE

RetryAllowed(a) == a = 0

\* the rows a successful submission of s returns: none when cur.description
\* is None (the statement has no SELECT and so no result set)
RowsReturned(s) == IF OuterSelect(DbCode(s)) = 0 THEN 0 ELSE DbRows(s)

Max(a, b) == IF a >= b THEN a ELSE b

\* the max_rows arguments given to the execute_query tool: negative, zero,
\* small, the default, the maximum, above the maximum
ToolRowsArgs == {-1, 0, 1, DEFAULT_MAX_ROWS, ABSOLUTE_MAX_ROWS,
                 ABSOLUTE_MAX_ROWS + 1}

\* execute_query: max_rows = min(max(1, max_rows), ABSOLUTE_MAX_ROWS)
ToolClamp(m) == Min(Max(1, m), ABSOLUTE_MAX_ROWS)

\* execute: max_rows = min(max_rows, ABSOLUTE_MAX_ROWS)
\* a faulty execute: the requested cap is used as it is
ClampRowsNone(m) == m

ClampRows(m) == Min(m, ABSOLUTE_MAX_ROWS)

\* what execute_query returns to its caller for an outcome of execute
ToolReply(o) ==
    CASE o = "ok" -> "table"
      [] o = "ValueError" -> "Query blocked"
      [] OTHER -> "Query failed"

\* The handles of the object, counted through _reconnect: l.unclosed are
\* those opened and not yet given to close(), l.peak the most there were at
\* any instant.  held says whether self._conn holds a handle, connected
\* whether pytds.connect succeeds.
\* a faulty _reconnect: the handle is dropped without close()
ReconnectNoClose(l, held, connected) ==
    LET opened == IF connected THEN l.unclosed + 1 ELSE l.unclosed
    IN  [unclosed |-> opened, peak |-> Max(l.peak, opened)]

_reconnect(l, held, connected) ==
    LET afterClose == IF held THEN l.unclosed - 1 ELSE l.unclosed
        opened == IF connected THEN afterClose + 1 ELSE afterClose
    IN  [unclosed |-> opened, peak |-> Max(l.peak, opened)]

\* self._conn after _reconnect: the old handle is dropped (self._conn = None)
\* before _connect, which stores the new handle or raises
\* a faulty _reconnect: the old handle is dropped only once connected
HeldAfterReconnectKeepsOld(old, connected) ==
    IF connected THEN "live" ELSE old

HeldAfterReconnect(old, connected) ==
    IF connected THEN "live" ELSE "none"

\* EpicorDB.__init__ has connected
Init ==
    /\ pc = "idle" /\ kind = "execute" /\ sql = <<>> /\ max_rows = 0 /\ cap = 0
    /\ stmt = <<>> /\ conn = "live" /\ connAtStart = "live" /\ attempt = 0
    /\ sent = <<>> /\ reconnects = 0 /\ retries = 0 /\ ensured = 0
    /\ firstFail = "none" /\ lastFail = "none"
    /\ outcome = "none" /\ rows = 0 /\ calls = 0
    /\ via = "direct" /\ requested = 0
    /\ unclosed = 1 /\ peakUnclosed = 1 /\ lastClose = "none"
    /\ clean = TRUE
    /\ GateOff
    /\ MetaOff
    /\ LookOff
    /\ SyncOff

\* a caller calls execute(s, max_rows=m) or execute_raw(s), or the tool
\* execute_query(s, m), which clamps m and calls execute
BeginCall ==
    /\ pc = "idle"
    /\ calls < MaxCalls
    /\ \E k \in {"execute", "execute_raw", "execute_query"}, s \in ExecTexts,
          m \in MaxRowsArgs \cup ToolRowsArgs :
          /\ k = "execute_raw" => m = 0
          /\ k = "execute" => m \in MaxRowsArgs
          /\ k = "execute_query" => m \in ToolRowsArgs
          /\ kind' = IF k = "execute_query" THEN "execute" ELSE k
          /\ via' = IF k = "execute_query" THEN "execute_query" ELSE "direct"
          /\ requested' = IF k = "execute_query" THEN m ELSE 0
          /\ sql' = s
          /\ stmt' = s
          /\ max_rows' = IF k = "execute_query" THEN ToolClamp(m) ELSE m
    /\ pc' = "validate"
    /\ calls' = calls + 1
    /\ connAtStart' = conn
    /\ cap' = 0 /\ attempt' = 0 /\ sent' = <<>>
    /\ reconnects' = 0 /\ retries' = 0 /\ ensured' = 0
    /\ firstFail' = "none" /\ lastFail' = "none"
    /\ outcome' = "none" /\ rows' = 0
    /\ lastClose' = "none" /\ clean' = TRUE
    /\ UNCHANGED <<conn, unclosed, peakUnclosed, gateVars, metaVars,
                   lookVars, syncVars>>

\* self._validate_readonly(sql), the first statement of both methods
Validate ==
    /\ pc = "validate"
    /\ IF _validate_readonly(sql)
       THEN pc' = "done" /\ outcome' = "ValueError"
       ELSE /\ pc' = IF kind = "execute" THEN "inject" ELSE "ensure"
            /\ UNCHANGED outcome
    /\ UNCHANGED <<kind, sql, max_rows, cap, stmt, conn, connAtStart, attempt,
                   sent, reconnects, retries, ensured, firstFail, lastFail,
                   rows, calls, via, requested, unclosed, peakUnclosed,
                   lastClose, clean, gateVars, metaVars,
                   lookVars, syncVars>>

\* execute: if max_rows > 0, clamp it and inject TOP
Inject ==
    /\ pc = "inject"
    /\ IF max_rows > 0
       THEN /\ cap' = ClampRows(max_rows)
            /\ stmt' = _inject_top(sql, cap')
       ELSE UNCHANGED <<cap, stmt>>
    /\ pc' = "ensure"
    /\ UNCHANGED <<kind, sql, max_rows, conn, connAtStart, attempt, sent,
                   reconnects, retries, ensured, firstFail, lastFail, outcome,
                   rows, calls, via, requested, unclosed, peakUnclosed,
                   lastClose, clean, gateVars, metaVars,
                   lookVars, syncVars>>

\* conn = self._ensure_connection(): with no handle, _reconnect (which
\* has nothing to close), whose _connect either stores a new handle or
\* raises RuntimeError, which the except clause of _execute_with_retry does
\* not catch
EnsureConnection ==
    /\ pc = "ensure"
    /\ ensured' = ensured + 1
    /\ IF conn = "none"
       THEN /\ reconnects' = reconnects + 1
            /\ \E connected \in BOOLEAN :
                  /\ LET l == _reconnect([unclosed |-> unclosed,
                                          peak |-> peakUnclosed],
                                         FALSE, connected)
                     IN  unclosed' = l.unclosed /\ peakUnclosed' = l.peak
                  /\ conn' = HeldAfterReconnect(conn, connected)
                  /\ clean' = (clean /\ connected)
                  /\ IF connected
                     THEN pc' = "submit" /\ UNCHANGED outcome
                     ELSE /\ pc' = "done"
                          /\ outcome' = "ConnectRuntimeError"
       ELSE /\ pc' = "submit"
            /\ UNCHANGED <<conn, reconnects, outcome, unclosed, peakUnclosed,
                           clean>>
    /\ UNCHANGED <<kind, sql, max_rows, cap, stmt, connAtStart, attempt, sent,
                   retries, firstFail, lastFail, rows, calls, via, requested,
                   lastClose, gateVars, metaVars,
                   lookVars, syncVars>>

\* cur = conn.cursor(); cur.execute(sql); cur.fetchall(), and what the code
\* does with the result or the exception, short of the reconnect
Submit ==
    /\ pc = "submit"
    /\ sent' = Append(sent, stmt)
    /\ \E r \in SubmitResults :
          /\ conn = "dead" => r = "conn"
          /\ lastFail' = IF r = "ok" THEN "none" ELSE r
          /\ firstFail' = IF sent = <<>> /\ r # "ok" THEN r ELSE firstFail
          /\ conn' = IF r = "conn" THEN "dead" ELSE conn
          /\ clean' = (clean /\ (conn = "live" => r = "ok"))
          /\ IF r = "ok"
             THEN pc' = "done" /\ outcome' = "ok" /\ rows' = RowsReturned(stmt)
             ELSE IF Caught(r)
                  THEN IF RetryAllowed(attempt)
                       THEN pc' = "reconnect" /\ UNCHANGED <<outcome, rows>>
                       ELSE /\ pc' = "done"
                            /\ outcome' = "QueryRuntimeError"
                            /\ UNCHANGED rows
                  ELSE pc' = "done" /\ outcome' = "DbError" /\ UNCHANGED rows
    /\ UNCHANGED <<kind, sql, max_rows, cap, stmt, connAtStart, attempt,
                   reconnects, retries, ensured, calls, via, requested,
                   unclosed, peakUnclosed, lastClose, gateVars, metaVars,
                   lookVars, syncVars>>

\* self._reconnect() in the except clause: the handle is closed (an error of
\* close is swallowed) and dropped, then _connect either stores a new handle,
\* and the loop goes on to the next attempt or runs out, or raises
Reconnect ==
    /\ pc = "reconnect"
    /\ reconnects' = reconnects + 1
    /\ retries' = retries + 1
    /\ \E closed \in {"ok", "raised"} : lastClose' = closed
    /\ \E connected \in BOOLEAN :
          /\ LET l == _reconnect([unclosed |-> unclosed, peak |-> peakUnclosed],
                                 conn # "none", connected)
             IN  unclosed' = l.unclosed /\ peakUnclosed' = l.peak
          /\ conn' = HeldAfterReconnect(conn, connected)
          /\ clean' = (clean /\ connected)
          /\ IF connected
             THEN /\ IF attempt + 1 < RetryAttempts
                     THEN /\ attempt' = attempt + 1
                          /\ pc' = "ensure"
                          /\ UNCHANGED outcome
                     ELSE /\ pc' = "done"
                          /\ outcome' = "ok"
                          /\ UNCHANGED attempt
             ELSE /\ pc' = "done"
                  /\ outcome' = "ConnectRuntimeError"
                  /\ UNCHANGED attempt
    /\ UNCHANGED <<kind, sql, max_rows, cap, stmt, connAtStart, sent, ensured,
                   firstFail, lastFail, rows, calls, via, requested, gateVars,
                   metaVars,
                   lookVars, syncVars>>

\* the call has returned or raised: its frame is gone, the object stays
Return ==
    /\ pc = "done"
    /\ pc' = "idle"
    /\ kind' = "execute" /\ sql' = <<>> /\ stmt' = <<>>
    /\ max_rows' = 0 /\ cap' = 0 /\ attempt' = 0 /\ sent' = <<>>
    /\ reconnects' = 0 /\ retries' = 0 /\ ensured' = 0
    /\ firstFail' = "none" /\ lastFail' = "none"
    /\ outcome' = "none" /\ rows' = 0
    /\ connAtStart' = conn
    /\ via' = "direct" /\ requested' = 0 /\ lastClose' = "none"
    /\ clean' = TRUE
    /\ UNCHANGED <<conn, calls, unclosed, peakUnclosed, gateVars, metaVars,
                   lookVars, syncVars>>

Next ==
    \/ BeginCall
    \/ Validate
    \/ Inject
    \/ EnsureConnection
    \/ Submit
    \/ Reconnect
    \/ Return

Spec == Init /\ [][Next]_vars


(***************************************************************************)
(* The metadata cache: callers of ensure_loaded, each a thread of its own, *)
(* on one MetadataCache object.  A caller's step is one statement of _load *)
(* (a catalog query, or the loop that stores its rows); steps of different *)
(* callers interleave freely, ensure_loaded taking no lock.                *)
(***************************************************************************)
InitLoad ==
    /\ catFks \in FkCatalogs(MaxFkRows)
    /\ loaded = FALSE /\ tables = {}
    /\ byName = EmptyByName /\ bySchema = EmptyBySchema
    /\ fks = <<>> /\ byParent = EmptyByTable /\ byChild = EmptyByTable
    /\ adjacency = EmptyAdjacency
    /\ cpc = [c \in Callers |-> "idle"] /\ crows = [c \in Callers |-> <<>>]
    /\ tableQueries = 0 /\ fkQueries = 0 /\ qfails = 0 /\ ecalls = 0
    /\ tlist = <<>>
    /\ GateOff
    /\ ExecOff
    /\ LookOff
    /\ SyncOff

\* the three index updates of the loop of _load_tables, for the rows from i
\* on; a dict keeps its keys in the order of their first insertion
RECURSIVE FillTables(_, _, _)
FillTables(rs, i, idx) ==
    IF i > Len(rs) THEN idx
    ELSE LET t == rs[i]
         IN  FillTables(rs, i + 1,
                [full |-> idx.full \cup {t},
                 order |-> IF t \in idx.full THEN idx.order
                           ELSE Append(idx.order, t),
                 name |-> [idx.name EXCEPT ![t[2]] = Append(@, t)],
                 schema |-> [idx.schema EXCEPT ![t[1]] = Append(@, t)]])

\* the loop of _load_foreign_keys that groups the rows from i on by fk_name:
\* m is fk_map, a list of ForeignKey values in the order their names first
\* appeared (a dict keeps insertion order)
RECURSIVE GroupFks(_, _, _)
GroupFks(rs, i, m) ==
    IF i > Len(rs) THEN m
    ELSE LET r == rs[i]
             known == \E j \in 1..Len(m) : m[j].fk_name = r.fk_name
             m1 == IF known THEN m
                   ELSE Append(m, [fk_name |-> r.fk_name, parent |-> r.parent,
                                   child |-> r.child, columns |-> <<>>])
             j == CHOOSE j \in 1..Len(m1) : m1[j].fk_name = r.fk_name
         IN  GroupFks(rs, i + 1,
                [m1 EXCEPT ![j].columns = Append(@, <<r.pc, r.cc>>)])

\* the loop of _load_foreign_keys that indexes the foreign keys from i on
RECURSIVE IndexFks(_, _, _)
IndexFks(fs, i, idx) ==
    IF i > Len(fs) THEN idx
    ELSE IndexFks(fs, i + 1,
            [parent |-> [idx.parent EXCEPT ![fs[i].parent] = Append(@, fs[i])],
             child |-> [idx.child EXCEPT ![fs[i].child] = Append(@, fs[i])]])

\* a faulty _build_adjacency: only the direction parent -> child is added
RECURSIVE BuildAdjacencyOneWay(_, _, _)
BuildAdjacencyOneWay(fs, i, adj) ==
    IF i > Len(fs) THEN adj
    ELSE BuildAdjacencyOneWay(fs, i + 1,
            [adj EXCEPT ![fs[i].parent] = @ \cup {fs[i].child}])

\* the loop of _build_adjacency, for the foreign keys from i on
RECURSIVE BuildAdjacency(_, _, _)
BuildAdjacency(fs, i, adj) ==
    IF i > Len(fs) THEN adj
    ELSE LET a1 == [adj EXCEPT ![fs[i].parent] = @ \cup {fs[i].child}]
         IN  BuildAdjacency(fs, i + 1,
                [a1 EXCEPT ![fs[i].child] = @ \cup {fs[i].parent}])

\* if not self._loaded
NeedsLoad(flag) == ~flag

\* a caller calls ensure_loaded (directly or through a lookup)
CallEnsureLoaded(c) ==
    /\ cpc[c] \in {"idle", "returned", "raised"}
    /\ ecalls < MaxEnsureCalls
    /\ ecalls' = ecalls + 1
    /\ cpc' = [cpc EXCEPT ![c] = "check"]
    /\ crows' = [crows EXCEPT ![c] = <<>>]
    /\ UNCHANGED <<qfails, catFks, loaded, tables, tlist, byName, bySchema, fks, byParent,
                   byChild, adjacency, tableQueries, fkQueries, gateVars,
                   execVars,
                   lookVars, syncVars>>

\* ensure_loaded: if not self._loaded: self._load()
CheckLoaded(c) ==
    /\ cpc[c] = "check"
    /\ cpc' = [cpc EXCEPT ![c] = IF NeedsLoad(loaded) THEN "q_tables"
                                 ELSE "returned"]
    /\ UNCHANGED <<qfails, catFks, loaded, tables, tlist, byName, bySchema, fks, byParent,
                   byChild, adjacency, crows, tableQueries, fkQueries, ecalls,
                   gateVars, execVars,
                   lookVars, syncVars>>

\* _load_tables: db.execute_raw of the table catalog query returns the rows
\* or raises, and the exception leaves _load and ensure_loaded
QueryTables(c) ==
    /\ cpc[c] = "q_tables"
    /\ tableQueries' = tableQueries + 1
    /\ \E ok \in BOOLEAN :
          IF ok
          THEN /\ crows' = [crows EXCEPT ![c] = CatalogTables]
               /\ cpc' = [cpc EXCEPT ![c] = "fill_tables"]
               /\ UNCHANGED qfails
          ELSE /\ cpc' = [cpc EXCEPT ![c] = "raised"]
               /\ qfails' = qfails + 1
               /\ UNCHANGED crows
    /\ UNCHANGED <<catFks, loaded, tables, tlist, byName, bySchema, fks, byParent,
                   byChild, adjacency, fkQueries, ecalls, gateVars, execVars,
                   lookVars, syncVars>>

\* _load_tables: the loop over the rows
StoreTables(c) ==
    /\ cpc[c] = "fill_tables"
    /\ LET idx == FillTables(crows[c], 1,
                     [full |-> tables, order |-> tlist, name |-> byName,
                      schema |-> bySchema])
       IN  /\ tables' = idx.full
           /\ tlist' = idx.order
           /\ byName' = idx.name
           /\ bySchema' = idx.schema
    /\ cpc' = [cpc EXCEPT ![c] = "q_fks"]
    /\ UNCHANGED <<qfails, catFks, loaded, fks, byParent, byChild, adjacency, crows,
                   tableQueries, fkQueries, ecalls, gateVars, execVars,
                   lookVars, syncVars>>

\* _load_foreign_keys: db.execute_raw of the foreign-key catalog query
\* returns the rows or raises
QueryFks(c) ==
    /\ cpc[c] = "q_fks"
    /\ fkQueries' = fkQueries + 1
    /\ \E ok \in BOOLEAN :
          IF ok
          THEN /\ crows' = [crows EXCEPT ![c] = catFks]
               /\ cpc' = [cpc EXCEPT ![c] = "fill_fks"]
               /\ UNCHANGED qfails
          ELSE /\ cpc' = [cpc EXCEPT ![c] = "raised"]
               /\ qfails' = qfails + 1
               /\ UNCHANGED crows
    /\ UNCHANGED <<catFks, loaded, tables, tlist, byName, bySchema, fks, byParent,
                   byChild, adjacency, tableQueries, ecalls, gateVars,
                   execVars,
                   lookVars, syncVars>>

\* _load_foreign_keys: the grouping loop, self._fks = list(fk_map.values())
\* and the indexing loop
StoreFks(c) ==
    /\ cpc[c] = "fill_fks"
    /\ LET grouped == GroupFks(crows[c], 1, <<>>)
           idx == IndexFks(grouped, 1, [parent |-> byParent, child |-> byChild])
       IN  /\ fks' = grouped
           /\ byParent' = idx.parent
           /\ byChild' = idx.child
    /\ cpc' = [cpc EXCEPT ![c] = "adjacency"]
    /\ UNCHANGED <<qfails, catFks, loaded, tables, tlist, byName, bySchema, adjacency, crows,
                   tableQueries, fkQueries, ecalls, gateVars, execVars,
                   lookVars, syncVars>>

\* _load: self._build_adjacency()
StoreAdjacency(c) ==
    /\ cpc[c] = "adjacency"
    /\ adjacency' = BuildAdjacency(fks, 1, adjacency)
    /\ cpc' = [cpc EXCEPT ![c] = "set_loaded"]
    /\ UNCHANGED <<qfails, catFks, loaded, tables, tlist, byName, bySchema, fks, byParent,
                   byChild, crows, tableQueries, fkQueries, ecalls, gateVars,
                   execVars,
                   lookVars, syncVars>>

\* _load: self._loaded = True, and ensure_loaded returns
SetLoaded(c) ==
    /\ cpc[c] = "set_loaded"
    /\ loaded' = TRUE
    /\ cpc' = [cpc EXCEPT ![c] = "returned"]
    /\ UNCHANGED <<qfails, catFks, tables, tlist, byName, bySchema, fks, byParent, byChild,
                   adjacency, crows, tableQueries, fkQueries, ecalls, gateVars,
                   execVars,
                   lookVars, syncVars>>

NextLoad ==
    \E c \in Callers :
        \/ CallEnsureLoaded(c)
        \/ CheckLoaded(c)
        \/ QueryTables(c)
        \/ StoreTables(c)
        \/ QueryFks(c)
        \/ StoreFks(c)
        \/ StoreAdjacency(c)
        \/ SetLoaded(c)

SpecLoad == InitLoad /\ [][NextLoad]_vars

\* the cache as MetadataCache.__init__ leaves it
CacheEmpty ==
    /\ tables = {} /\ tlist = <<>>
    /\ byName = EmptyByName /\ bySchema = EmptyBySchema
    /\ fks = <<>> /\ byParent = EmptyByTable /\ byChild = EmptyByTable
    /\ adjacency = EmptyAdjacency

\* the cache as one complete run of _load on an empty cache leaves it
CacheFull ==
    LET t == FillTables(CatalogTables, 1,
                [full |-> {}, order |-> <<>>, name |-> EmptyByName,
                 schema |-> EmptyBySchema])
        g == GroupFks(catFks, 1, <<>>)
        x == IndexFks(g, 1, [parent |-> EmptyByTable, child |-> EmptyByTable])
    IN  /\ tables = t.full /\ tlist = t.order
        /\ byName = t.name /\ bySchema = t.schema
        /\ fks = g /\ byParent = x.parent /\ byChild = x.child
        /\ adjacency = BuildAdjacency(g, 1, EmptyAdjacency)


(***************************************************************************)
(* metadata.py: the lookups on the loaded cache.  A bare table name and a  *)
(* search query are sequences of characters; a table is <<schema, name>>.  *)
(***************************************************************************)
\* the characters of names in the order of their code points
CodeOrder == DigitChars \o UpperLetters \o <<"_">> \o LowerLetters

CharCode(c) == CHOOSE i \in 1..Len(CodeOrder) : CodeOrder[i] = c

\* str.lower()
LowTable == [c \in UpperSet |-> LowerLetters[CHOOSE i \in 1..26 : UpperLetters[i] = c]]
LowChar(c) == IF c \in UpperSet THEN LowTable[c] ELSE c
Lower(s) == [i \in 1..Len(s) |-> LowChar(s[i])]

\* a < b for two str values
RECURSIVE StrLess(_, _)
StrLess(a, b) ==
    IF b = <<>> THEN FALSE
    ELSE IF a = <<>> THEN TRUE
    ELSE IF a[1] # b[1] THEN CharCode(a[1]) < CharCode(b[1])
    ELSE StrLess(Tail(a), Tail(b))

\* s.startswith(q)
StartsWith(s, q) == Len(q) <= Len(s) /\ SubSeq(s, 1, Len(q)) = q

\* q in s
Contains(s, q) ==
    \E i \in 1..(Len(s) + 1) :
        i + Len(q) - 1 <= Len(s) /\ SubSeq(s, i, i + Len(q) - 1) = q

\* sorted(ts, key=lambda t: t.name): stable
RECURSIVE SortByName(_)
SortByName(ts) ==
    IF ts = <<>> THEN <<>>
    ELSE LET front == SortByName(SubSeq(ts, 1, Len(ts) - 1))
             x == ts[Len(ts)]
             k == Cardinality({j \in 1..Len(front) : ~StrLess(x[2], front[j][2])})
         IN  SubSeq(front, 1, k) \o <<x>> \o SubSeq(front, k + 1, Len(front))

\* s[:n]
Slice(s, n) ==
    IF n >= 0 THEN SubSeq(s, 1, Min(n, Len(s)))
    ELSE SubSeq(s, 1, Max(0, Len(s) + n))

\* an optional schema argument: None, the empty string, or a schema name;
\* "if schema" holds for a schema name only
NoneArg == "<None>"
Given(schema) == schema \notin {NoneArg, ""}

\* d.get(k, default)
DictGet(d, k, default) == IF k \in DOMAIN d THEN d[k] ELSE default

\* self._tables.get(f"{schema}.{name}"): <<>> for None, else <<table>>
TablesGet(ts, schema, name) ==
    IF <<schema, name>> \in ts THEN << <<schema, name>> >> ELSE <<>>

\* resolve_table(name, schema) on the cache with full-name map ts and
\* by-name index bn: <<>> for None, else <<table>>
\* a faulty resolve_table: the schema Erp is not tried first
ResolveNoDefault(ts, bn, name, schema) ==
    IF Given(schema) THEN TablesGet(ts, schema, name)
    ELSE LET matches == DictGet(bn, name, <<>>)
         IN  IF matches # <<>> THEN <<matches[1]>> ELSE <<>>

resolve_table(ts, bn, name, schema) ==
    IF Given(schema) THEN TablesGet(ts, schema, name)
    ELSE LET erp == TablesGet(ts, "Erp", name)
             matches == DictGet(bn, name, <<>>)
         IN  IF erp # <<>> THEN erp
             ELSE IF matches # <<>> THEN <<matches[1]>> ELSE <<>>

\* search_tables(query, schema, limit) on the cache with table list tl and
\* by-schema index bs
search_tables(tl, bs, query, schema, limit) ==
    LET q == Lower(query)
        candidates == IF Given(schema) THEN DictGet(bs, schema, <<>>) ELSE tl
        IsExact(t) == Lower(t[2]) = q
        IsPrefix(t) == ~IsExact(t) /\ StartsWith(Lower(t[2]), q)
        IsContains(t) == ~IsExact(t) /\ ~StartsWith(Lower(t[2]), q)
                         /\ Contains(Lower(t[2]), q)
        exact == SelectSeq(candidates, IsExact)
        prefix == SelectSeq(candidates, IsPrefix)
        contains == SelectSeq(candidates, IsContains)
    IN  Slice(exact \o SortByName(prefix) \o SortByName(contains), limit)

\* paths[:10]
MaxPaths == 10

\* a faulty find_join_path: every recorded path is returned
CapPathsNone(ps) == ps

CapPaths(ps) == Slice(ps, MaxPaths)

\* if start == end
\* a faulty find_join_path: the search is run for equal ends too
SamePlaceNever(start, end) == FALSE

SamePlace(start, end) == start = end

\* if depth >= max_depth: continue
\* a faulty find_join_path: entries of depth max_depth are expanded
DepthExhaustedLate(depth, max_depth) == depth > max_depth

DepthExhausted(depth, max_depth) == depth >= max_depth

\* if neighbor not in visited
\* a faulty find_join_path: a table is taken up however often it is met
UnvisitedAlways(neighbor, seen) == TRUE

Unvisited(neighbor, seen) == neighbor \notin seen

\* visited.add(neighbor)
\* a faulty find_join_path: the table is enqueued without being marked
MarkVisitedNot(seen, neighbor) == seen

MarkVisited(seen, neighbor) == seen \cup {neighbor}

\* the for loop over the neighbors of path[-1], taken in the given order
\* from the i-th on; st holds paths, visited and queue
RECURSIVE VisitNeighbors(_, _, _, _, _, _)
VisitNeighbors(order, i, path, depth, end, st) ==
    IF i > Len(order) THEN st
    ELSE LET neighbor == order[i]
         IN  IF neighbor = end
             THEN VisitNeighbors(order, i + 1, path, depth, end,
                     [st EXCEPT !.paths = Append(@, Append(path, neighbor))])
             ELSE IF Unvisited(neighbor, st.visited)
             THEN VisitNeighbors(order, i + 1, path, depth, end,
                     [st EXCEPT !.visited = MarkVisited(@, neighbor),
                                !.queue = Append(@, [path |-> Append(path, neighbor),
                                                     depth |-> depth + 1])])
             ELSE VisitNeighbors(order, i + 1, path, depth, end, st)

\* The orders in which a for loop can go through a set.  Python leaves the
\* order of a set of strings open (it follows the hash values, which differ
\* from process to process).  A set of at most MaxPermuted elements is tried
\* in every order; a larger one, which only the fan catalogs have and whose
\* elements other than the target are interchangeable there, in every
\* rotation of the load order.
RECURSIVE Perms(_)
Perms(S) ==
    IF S = {} THEN {<<>>}
    ELSE UNION {{<<x>> \o p : p \in Perms(S \ {x})} : x \in S}

Rotate(s, k) == SubSeq(s, k + 1, Len(s)) \o SubSeq(s, 1, k)

IterOrders(S, tl) ==
    IF Cardinality(S) <= MaxPermuted THEN Perms(S)
    ELSE LET IsIn(t) == t \in S
             inOrder == SelectSeq(tl, IsIn)
         IN  {Rotate(inOrder, k) : k \in 0..(Len(inOrder) - 1)}

(***************************************************************************)
(* The catalogs of the lookups.                                            *)
(***************************************************************************)
NPart == <<"P","a","r","t">>
NPartBin == <<"P","a","r","t","B","i","n">>
NPartZ == <<"P","a","r","t","Z">>
NAPart == <<"A","P","a","r","t">>
NZPart == <<"Z","P","a","r","t">>
NTax == <<"T","a","x">>
NCustomer == <<"C","u","s","t","o","m","e","r">>
NNope == <<"N","o","p","e">>

\* ten tables of three schemas, ORDER BY TABLE_SCHEMA, TABLE_NAME
SmallTables ==
    << <<"Dbo", NPart>>, <<"Dbo", NPartZ>>, <<"Dbo", NTax>>, <<"Dbo", NZPart>>,
       <<"Erp", NAPart>>, <<"Erp", NCustomer>>, <<"Erp", NPart>>,
       <<"Erp", NPartBin>>,
       <<"Ice", NPart>>, <<"Ice", NTax>> >>

\* the foreign keys a small catalog can have, <<parent, child>> each: any of
\* those between four of the tables, one of them of a table to itself
EdgeSlots ==
    << << <<"Dbo", NPart>>, <<"Erp", NCustomer>> >>,
       << <<"Dbo", NPart>>, <<"Erp", NPart>> >>,
       << <<"Dbo", NPart>>, <<"Erp", NPartBin>> >>,
       << <<"Erp", NCustomer>>, <<"Erp", NPart>> >>,
       << <<"Erp", NPartBin>>, <<"Erp", NCustomer>> >>,
       << <<"Erp", NPartBin>>, <<"Erp", NPart>> >>,
       << <<"Erp", NPart>>, <<"Erp", NPart>> >> >>

\* the rows of the foreign-key catalog query for the slots in S, one column
\* pair each, ORDER BY fk.name
RECURSIVE SlotRows(_, _)
SlotRows(S, i) ==
    IF i > Len(EdgeSlots) THEN <<>>
    ELSE (IF i \in S
          THEN <<FkRow(<<"FK", i>>, EdgeSlots[i][1], EdgeSlots[i][2], 1)>>
          ELSE <<>>) \o SlotRows(S, i + 1)

SmallCatalogs ==
    {[tables |-> SmallTables, fks |-> SlotRows(S, 1)] :
        S \in SUBSET (1..Len(EdgeSlots))}

\* the fan: tables A and B and FanWidth tables M01, M02, ... in between,
\* each with a foreign key to A and one to B, with or without a foreign
\* key between A and B themselves
FanA == <<"Fan", <<"A">>>>
FanB == <<"Fan", <<"B">>>>
FanM(i) ==
    <<"Fan", <<"M">> \o (IF i < 10 THEN <<"0">> ELSE <<>>) \o IntToStr(i)>>

FanTables == <<FanA, FanB>> \o [i \in 1..FanWidth |-> FanM(i)]

RECURSIVE FanRows(_)
FanRows(i) ==
    IF i > FanWidth THEN <<>>
    ELSE <<FkRow(<<"FK", 2 * i - 1>>, FanM(i), FanA, 1),
           FkRow(<<"FK", 2 * i>>, FanM(i), FanB, 1)>> \o FanRows(i + 1)

FanCatalogs ==
    {[tables |-> FanTables,
      fks |-> (IF direct THEN <<FkRow(<<"FK", 0>>, FanA, FanB, 1)>> ELSE <<>>)
              \o FanRows(1)] : direct \in BOOLEAN}

LookupCatalogs == SmallCatalogs \cup FanCatalogs

\* the table indices after _load_tables has run n times on the rows rs
RECURSIVE LoadedTables(_, _)
LoadedTables(rs, n) ==
    IF n = 0
    THEN [full |-> {}, order |-> <<>>,
          name |-> [x \in {rs[i][2] : i \in 1..Len(rs)} |-> <<>>],
          schema |-> [x \in {rs[i][1] : i \in 1..Len(rs)} |-> <<>>]]
    ELSE FillTables(rs, 1, LoadedTables(rs, n - 1))

(***************************************************************************)
(* Lookups on a loaded cache, one after the other.  The cache is as a load *)
(* that completed has left it; _load_tables has run once, or more than     *)
(* once when earlier loads failed at the foreign-key query.                *)
(***************************************************************************)
InitLookup ==
    /\ \E cat \in LookupCatalogs, n \in 1..MaxTableLoads :
          LET t == LoadedTables(cat.tables, n)
              none == [x \in t.full |-> <<>>]
              g == GroupFks(cat.fks, 1, <<>>)
              x == IndexFks(g, 1, [parent |-> none, child |-> none])
          IN  /\ catFks = cat.fks
              /\ tables = t.full /\ tlist = t.order
              /\ byName = t.name /\ bySchema = t.schema
              /\ fks = g /\ byParent = x.parent /\ byChild = x.child
              /\ adjacency = BuildAdjacency(g, 1, [y \in t.full |-> {}])
              /\ tableQueries = n /\ fkQueries = n /\ qfails = n - 1
              /\ ecalls = n
    /\ loaded = TRUE
    /\ cpc = [c \in Callers |-> "returned"] /\ crows = [c \in Callers |-> <<>>]
    /\ lpc = "idle" /\ larg = NoArgs /\ lstart = <<>> /\ lend = <<>>
    /\ queue = <<>> /\ visited = {} /\ paths = <<>> /\ pops = 0
    /\ lresult = <<>>
    /\ GateOff
    /\ ExecOff
    /\ SyncOff

\* the arguments tried
SchemaArgs == {NoneArg, "", "Dbo", "Erp", "Ice"}
NameArgs == {NPart, NTax, NCustomer, NNope}
QueryArgs == {NPart, <<"P","A">>, <<"t">>, <<"z","z">>}
LimitArgs == (-1)..MaxLimitArg
DepthArgs == 0..MaxDepthArg \cup {LargeDepthArg}
\* <<name, schema>> arguments that name an end of a join path
EndArgs ==
    { <<NPart, NoneArg>>, <<NPart, "Dbo">>, <<NCustomer, NoneArg>>,
      <<NPartBin, "Erp">>, <<NNope, NoneArg>>,
      <<FanA[2], "Fan">>, <<FanB[2], NoneArg>> }

\* resolve_table(name, schema); ensure_loaded finds the cache loaded
CallResolveTable ==
    /\ lpc = "idle" /\ loaded
    /\ \E name \in NameArgs, schema \in SchemaArgs :
          /\ larg' = [NoArgs EXCEPT !.op = "resolve_table", !.a = name,
                                    !.sa = schema]
          /\ lresult' = resolve_table(tables, byName, name, schema)
    /\ lpc' = "done"
    /\ UNCHANGED <<lstart, lend, queue, visited, paths, pops, gateVars,
                   execVars, metaVars, syncVars>>

\* search_tables(query, schema, limit); ensure_loaded finds the cache loaded
CallSearchTables ==
    /\ lpc = "idle" /\ loaded
    /\ \E query \in QueryArgs, schema \in SchemaArgs, limit \in LimitArgs :
          /\ larg' = [NoArgs EXCEPT !.op = "search_tables", !.a = query,
                                    !.sa = schema, !.n = limit]
          /\ lresult' = search_tables(tlist, bySchema, query, schema, limit)
    /\ lpc' = "done"
    /\ UNCHANGED <<lstart, lend, queue, visited, paths, pops, gateVars,
                   execVars, metaVars, syncVars>>

\* find_join_path(from_table, to_table, from_schema, to_schema, max_depth)
\* up to the while loop; ensure_loaded finds the cache loaded
CallFindJoinPath ==
    /\ lpc = "idle" /\ loaded
    /\ \E from \in EndArgs, to \in EndArgs, max_depth \in DepthArgs :
          LET src == resolve_table(tables, byName, from[1], from[2])
              dst == resolve_table(tables, byName, to[1], to[2])
          IN  /\ larg' = [op |-> "find_join_path", a |-> from[1],
                          sa |-> from[2], b |-> to[1], sb |-> to[2],
                          n |-> max_depth]
              /\ lstart' = src
              /\ lend' = dst
              /\ IF src = <<>> \/ dst = <<>>
                 THEN /\ lresult' = <<>> /\ lpc' = "done"
                      /\ UNCHANGED <<queue, visited>>
                 ELSE IF SamePlace(src[1], dst[1])
                 THEN /\ lresult' = <<src>> /\ lpc' = "done"
                      /\ UNCHANGED <<queue, visited>>
                 ELSE /\ queue' = <<[path |-> src, depth |-> 0]>>
                      /\ visited' = {src[1]}
                      /\ lpc' = "bfs"
                      /\ UNCHANGED lresult
    /\ UNCHANGED <<paths, pops, gateVars, execVars, metaVars, syncVars>>

\* one round of the while loop: queue.pop(0) and the for loop over the
\* neighbors of the end of the popped path
BfsStep ==
    /\ lpc = "bfs"
    /\ queue # <<>>
    /\ pops' = pops + 1
    /\ LET path == queue[1].path
           depth == queue[1].depth
           rest == Tail(queue)
           current == path[Len(path)]
       IN  IF DepthExhausted(depth, larg.n)
           THEN /\ queue' = rest
                /\ UNCHANGED <<visited, paths>>
           ELSE \E order \in IterOrders(DictGet(adjacency, current, {}), tlist) :
                  LET st == VisitNeighbors(order, 1, path, depth, lend[1],
                               [paths |-> paths, visited |-> visited,
                                queue |-> rest])
                  IN  /\ queue' = st.queue
                      /\ visited' = st.visited
                      /\ paths' = st.paths
    /\ UNCHANGED <<lpc, larg, lstart, lend, lresult, gateVars, execVars,
                   metaVars, syncVars>>

\* the queue is empty: return paths[:10]
BfsReturn ==
    /\ lpc = "bfs"
    /\ queue = <<>>
    /\ lresult' = CapPaths(paths)
    /\ lpc' = "done"
    /\ UNCHANGED <<larg, lstart, lend, queue, visited, paths, pops, gateVars,
                   execVars, metaVars, syncVars>>

\* the method has returned: its frame is gone, the cache stays
LookupReturn ==
    /\ lpc = "done"
    /\ lpc' = "idle" /\ larg' = NoArgs /\ lstart' = <<>> /\ lend' = <<>>
    /\ queue' = <<>> /\ visited' = {} /\ paths' = <<>> /\ pops' = 0
    /\ lresult' = <<>>
    /\ UNCHANGED <<gateVars, execVars, metaVars, syncVars>>

NextLookup ==
    \/ CallResolveTable
    \/ CallSearchTables
    \/ CallFindJoinPath
    \/ BfsStep
    \/ BfsReturn
    \/ LookupReturn

SpecLookup == InitLookup /\ [][NextLookup]_vars

\* find_join_path is straight-line code: once called, its while loop goes
\* round as long as the queue holds an entry, and it returns when the queue
\* is empty
SpecLookupFair ==
    SpecLookup /\ WF_vars(BfsStep) /\ WF_vars(BfsReturn)

\* get_fk_between(table_a, table_b): the foreign keys between the two
\* tables, in either direction, in list order
get_fk_between(fs, table_a, table_b) ==
    SelectSeq(fs, LAMBDA fk :
        \/ fk.parent = table_a /\ fk.child = table_b
        \/ fk.parent = table_b /\ fk.child = table_a)

\* the undirected foreign-key graph, read off the edge list
Neighbors(x) ==
    {fks[i].child : i \in {j \in 1..Len(fks) : fks[j].parent = x}}
    \cup {fks[i].parent : i \in {j \in 1..Len(fks) : fks[j].child = x}}

\* the tables within k edges of those in S
RECURSIVE Within(_, _)
Within(S, k) ==
    IF k = 0 THEN S
    ELSE Within(S \cup UNION {Neighbors(x) : x \in S}, k - 1)

\* the least number of edges of a path from a to b, -1 if there is none
Distance(a, b) ==
    LET ks == {k \in 0..Cardinality(tables) : b \in Within({a}, k)}
    IN  IF ks = {} THEN -1 ELSE SetMin(ks)

\* the number of edges of a path
Hops(p) == Len(p) - 1

\* a call of find_join_path whose two ends resolved has returned
JoinPathDone ==
    lpc = "done" /\ larg.op = "find_join_path" /\ lstart # <<>> /\ lend # <<>>


(***************************************************************************)
(* The standalone server (src/tools/epicor-mcp/server.py): one call of     *)
(* _execute_sync after the other.  The database and the network decide how *)
(* a connect, a submission and a close end.                                *)
(***************************************************************************)

\* MAX_RETRIES = 5
MAX_RETRIES == 5

\* the max_rows arguments of the calls
SyncRowsArgs == 1..MaxSyncRows

\* cur.fetchmany(max_rows) on a result of avail rows
FetchMany(m, avail) == Min(m, avail)

InitSync ==
    /\ spc = "idle" /\ smax = 0 /\ sattempt = 0 /\ shandle = "none"
    /\ sopened = 0 /\ sclosed = 0 /\ scloseRaised = 0 /\ ssubmits = 0
    /\ srows = -1 /\ sfirst = -1 /\ sfirstAt = 0
    /\ sresult = -1 /\ soutcome = "none"
    /\ GateOff
    /\ ExecOff
    /\ MetaOff
    /\ LookOff

\* a caller calls _execute_sync(sql, max_rows): last_err = None and the
\* first round of the for loop begins
SyncCall ==
    /\ spc = "idle"
    /\ \E m \in SyncRowsArgs : smax' = m
    /\ spc' = "connect"
    /\ UNCHANGED <<sattempt, shandle, sopened, sclosed, scloseRaised, ssubmits,
                   srows, sfirst, sfirstAt, sresult, soutcome, gateVars,
                   execVars, metaVars, lookVars>>

\* conn = _connect(): a new connection, or an exception that the except
\* clause of the loop catches
SyncConnect ==
    /\ spc = "connect"
    /\ srows' = -1
    /\ \E connected \in BOOLEAN :
          IF connected
          THEN /\ shandle' = "open" /\ sopened' = sopened + 1
               /\ spc' = "execute"
          ELSE /\ shandle' = "none" /\ spc' = "except"
               /\ UNCHANGED sopened
    /\ UNCHANGED <<smax, sattempt, sclosed, scloseRaised, ssubmits, sfirst,
                   sfirstAt, sresult, soutcome, gateVars, execVars, metaVars,
                   lookVars>>

\* cur = conn.cursor(); cur.execute(sql); rows = cur.fetchmany(max_rows):
\* the rows (what the table holds can differ from one attempt to the next),
\* or an exception; either way the finally clause comes next
SyncExecute ==
    /\ spc = "execute"
    /\ ssubmits' = ssubmits + 1
    /\ \E ok \in BOOLEAN, avail \in 0..SyncTableRows :
          IF ok
          THEN /\ srows' = FetchMany(smax, avail)
               /\ sfirst' = IF sfirstAt = 0 THEN srows' ELSE sfirst
               /\ sfirstAt' = IF sfirstAt = 0 THEN sattempt + 1 ELSE sfirstAt
          ELSE /\ avail = 0
               /\ srows' = -1
               /\ UNCHANGED <<sfirst, sfirstAt>>
    /\ spc' = "close"
    /\ UNCHANGED <<smax, sattempt, shandle, sopened, sclosed, scloseRaised,
                   sresult, soutcome, gateVars, execVars, metaVars, lookVars>>

\* finally: conn.close().  If it returns, the pending return of the rows
\* or the pending exception goes on; if it raises, its exception replaces
\* either and reaches the except clause of the loop
SyncClose ==
    /\ spc = "close"
    /\ \E closed \in BOOLEAN :
          /\ shandle' = IF closed THEN "closed" ELSE "close_raised"
          /\ sclosed' = IF closed THEN sclosed + 1 ELSE sclosed
          /\ scloseRaised' = IF closed THEN scloseRaised
                             ELSE scloseRaised + 1
          /\ IF closed /\ srows >= 0
             THEN /\ spc' = "done"
                  /\ soutcome' = "rows"
                  /\ sresult' = srows
             ELSE /\ spc' = "except"
                  /\ UNCHANGED <<soutcome, sresult>>
    /\ UNCHANGED <<smax, sattempt, sopened, ssubmits, srows, sfirst, sfirstAt,
                   gateVars, execVars, metaVars, lookVars>>

\* except Exception: last_err = exc, warn, sleep; then the next round of
\* the loop, or after the last round raise ConnectionError
SyncExcept ==
    /\ spc = "except"
    /\ IF sattempt + 1 < MAX_RETRIES
       THEN /\ sattempt' = sattempt + 1
            /\ spc' = "connect"
            /\ UNCHANGED soutcome
       ELSE /\ spc' = "done"
            /\ soutcome' = "ConnectionError"
            /\ UNCHANGED sattempt
    /\ UNCHANGED <<smax, shandle, sopened, sclosed, scloseRaised, ssubmits,
                   srows, sfirst, sfirstAt, sresult, gateVars, execVars,
                   metaVars, lookVars>>

\* the call has returned or raised: its frame is gone
SyncReturn ==
    /\ spc = "done"
    /\ spc' = "idle" /\ smax' = 0 /\ sattempt' = 0 /\ shandle' = "none"
    /\ sopened' = 0 /\ sclosed' = 0 /\ scloseRaised' = 0 /\ ssubmits' = 0
    /\ srows' = -1 /\ sfirst' = -1 /\ sfirstAt' = 0
    /\ sresult' = -1 /\ soutcome' = "none"
    /\ UNCHANGED <<gateVars, execVars, metaVars, lookVars>>

NextSync ==
    \/ SyncCall
    \/ SyncConnect
    \/ SyncExecute
    \/ SyncClose
    \/ SyncExcept
    \/ SyncReturn

SpecSync == InitSync /\ [][NextSync]_vars

(***************************************************************************)
(* Claims about the safety gate.                                           *)
(***************************************************************************)

\* C2: every text the database can lex in which a denylisted keyword stands
\* as a whole word outside of every comment, comments being those the
\* database lexes (string literals respected, the two comment syntaxes
\* overlapping), is rejected by the validation with ValueError.
C2_KeywordOutsideCommentRejected ==
    (gpc = "done" /\ DbLexOk(gsql) /\ BlockedIn(DbStripComments(gsql)))
        => verdict = "ValueError"

\* C3: a text the database can lex that holds denylisted keywords, all of
\* them inside the comments the database lexes, passes the validation.
C3_KeywordInCommentPasses ==
    ( /\ gpc = "done"
      /\ DbLexOk(gsql)
      /\ BlockedIn(gsql)
      /\ ~BlockedIn(DbStripComments(gsql)) )
        => verdict = "ok"

\* C9: injecting a cap into the result of an injection changes nothing,
\* whatever the two caps, and a text that carries TOP <digits> is returned
\* as it was given.
C9_InjectIdempotent ==
    /\ gpc = "done" => out2 = out1
    /\ (gpc \in {"again", "done"} /\ HasTop(gsql)) => out1 = gsql

\* C9 witness: a cap was inserted by the first injection and the second
\* injection has run on the capped text.
C9_Witness ==
    /\ gpc = "done"
    /\ WordAtCI(Strip(gsql), 1, KwSelect)
    /\ ~HasTop(gsql)
    /\ out1 = InsertTop(Strip(gsql), 6, cap1)
    /\ out2 = out1
    /\ cap1 = MaxCap

\* C23: in a text that does not begin with WITH, has matching parentheses,
\* no comment, no literal and no TOP clause, the cap stands right after the
\* outermost SELECT (the first SELECT at the least parenthesis depth),
\* wherever in the text that SELECT stands, and the text is returned as it
\* was given only when it holds no SELECT keyword.
C23_CapAfterOutermostSelect ==
    LET s == Strip(gsql)
    IN  ( /\ gpc \in {"again", "done"}
          /\ ~MatchAt(Upper(s), 1, KwWith)
          /\ ~HasTop(s)
          /\ DbCode(s) = s
          /\ Balanced(s) )
        => /\ OuterSelect(s) # 0
              => out1 = InsertTop(s, OuterSelect(s) + 5, cap1)
           /\ out1 = gsql => SelectPositions(s) = {}

\* C10: in a text that begins with WITH, has matching parentheses and
\* carries no TOP clause, the cap stands right after the outer SELECT (the
\* first SELECT outside every parenthesis), also when a later SELECT stands
\* in a subquery.
C10_CapAfterOuterSelect ==
    LET s == Strip(gsql)
    IN  ( /\ gpc \in {"again", "done"}
          /\ MatchAt(Upper(s), 1, KwWith)
          /\ ~HasTop(s)
          /\ DbCode(s) = s
          /\ Balanced(s)
          /\ OuterSelect(s) # 0 )
        => out1 = InsertTop(s, OuterSelect(s) + 5, cap1)

(***************************************************************************)
(* Claims about the query executor.                                        *)
(***************************************************************************)

\* C1: a call of execute or execute_raw whose comment-stripped text holds a
\* denylisted keyword as a whole word, in any case, ends with ValueError
\* before _ensure_connection is called, before any reconnect and before any
\* submission; the handle is the one the call began with and nothing is
\* retried.
C1_UnsafeFailsBeforeConnection ==
    (pc \in {"inject", "ensure", "submit", "reconnect", "done"}
        /\ BlockedIn(_strip_comments(sql)))
    => /\ pc = "done"
       /\ outcome = "ValueError"
       /\ ensured = 0
       /\ reconnects = 0
       /\ retries = 0
       /\ attempt = 0
       /\ sent = <<>>
       /\ conn = connAtStart

\* C1 witness: execute_raw of a text with a keyword in lower case letters
\* has raised ValueError on an object that holds no handle.
C1_Witness ==
    /\ pc = "done"
    /\ kind = "execute_raw"
    /\ outcome = "ValueError"
    /\ conn = "none"
    /\ \E i \in 1..Len(sql) : MatchAt(sql, i, <<"r", "o", "p">>)

\* C4, as claimed: a call whose first submission failed with a
\* connection-class error has made exactly one reconnect and exactly two
\* submissions when it ends.
C4_OneReconnectOneResubmit ==
    (pc = "done" /\ firstFail = "conn")
    => reconnects = 1 /\ Len(sent) = 2

\* C4, amended: a call whose first submission failed with a connection-class
\* error makes exactly one reconnect in answer to it (besides the one of
\* _ensure_connection when the call began without a handle).  If that
\* reconnect fails the call raises without a resubmission; otherwise the same
\* statement is submitted exactly once more, a retry that succeeds returns
\* its rows, and a retry that fails with a connection-class error raises.
\* No call makes a third submission or a second reconnect of this kind.
C4_RetryOnce ==
    /\ Len(sent) <= 2
    /\ retries <= 1
    /\ reconnects = retries + (IF ensured > 0 /\ connAtStart = "none" THEN 1 ELSE 0)
    /\ (pc = "done" /\ firstFail = "conn")
       => /\ retries = 1
          /\ outcome \in {"ok", "DbError", "ConnectRuntimeError",
                          "QueryRuntimeError"}
          /\ outcome = "ConnectRuntimeError" <=> Len(sent) = 1
          /\ Len(sent) = 2 => sent[2] = sent[1]
          /\ outcome = "ok" => rows = RowsReturned(sent[2]) /\ lastFail = "none"
          /\ (Len(sent) = 2 /\ lastFail = "conn") => outcome = "QueryRuntimeError"

\* C4 witness: the first submission failed with a connection-class error,
\* the reconnect succeeded and the resubmission returned rows.
C4_Witness ==
    /\ pc = "done"
    /\ firstFail = "conn"
    /\ outcome = "ok"
    /\ Len(sent) = 2
    /\ rows > 0

\* C5: a submission that fails with an error that is not of the connection
\* class ends the call with that error at once: nothing is resubmitted or
\* reconnected because of it, and when it was the first submission the call
\* has submitted the statement exactly once.
C5_OtherErrorNotRetried ==
    /\ lastFail = "other"
       => /\ pc = "done"
          /\ outcome = "DbError"
          /\ retries = (IF firstFail = "conn" THEN 1 ELSE 0)
    /\ firstFail = "other"
       => /\ Len(sent) = 1
          /\ retries = 0
          /\ reconnects = (IF connAtStart = "none" THEN 1 ELSE 0)

\* C5 witness: the first submission of a call failed with such an error.
C5_Witness ==
    /\ pc = "done"
    /\ firstFail = "other"
    /\ outcome = "DbError"
    /\ Len(sent) = 1

\* C8: execute with a positive row cap, on a SELECT statement that the
\* database can lex, with matching parentheses and no TOP clause on its
\* outer SELECT, returns at most that many rows.
C8_RowsWithinCap ==
    ( /\ pc = "done"
      /\ kind = "execute"
      /\ outcome = "ok"
      /\ max_rows > 0
      /\ DbLexOk(sql)
      /\ Balanced(DbCode(sql))
      /\ OuterSelect(DbCode(sql)) # 0
      /\ RowLimit(DbCode(sql)) = -1 )
    => rows <= max_rows

\* C11: once execute has passed its injection step, a positive max_rows
\* has been clamped to min(max_rows, 10000), that value is the one written
\* into the statement wherever a TOP clause was inserted, and no cap is set
\* for max_rows <= 0; a call that came through execute_query, whatever
\* integer it was given, has a cap from 1 to 10000, namely
\* min(max(1, requested), 10000).
C11_CapClamped ==
    LET expected == IF max_rows <= ABSOLUTE_MAX_ROWS THEN max_rows
                    ELSE ABSOLUTE_MAX_ROWS
        fromTool == IF requested < 1 THEN 1
                    ELSE IF requested > ABSOLUTE_MAX_ROWS THEN ABSOLUTE_MAX_ROWS
                    ELSE requested
    IN  ( /\ kind = "execute"
          /\ pc \in {"ensure", "submit", "reconnect", "done"}
          /\ outcome # "ValueError" )
        => /\ max_rows > 0
              => /\ cap = expected
                 /\ cap >= 1 /\ cap <= ABSOLUTE_MAX_ROWS
                 /\ stmt # sql
                    => \E pos \in 1..Len(sql) :
                          stmt = InsertTop(Strip(sql), pos, expected)
           /\ max_rows <= 0 => cap = 0 /\ stmt = sql
           /\ via = "execute_query"
              => /\ max_rows = fromTool
                 /\ cap = fromTool
                 /\ cap >= 1 /\ cap <= ABSOLUTE_MAX_ROWS

\* C11 witness: execute_query was given a cap above the maximum, and the
\* statement was sent and answered with TOP 10000 inserted.
C11_Witness ==
    /\ pc = "done"
    /\ via = "execute_query"
    /\ requested = ABSOLUTE_MAX_ROWS + 1
    /\ outcome = "ok"
    /\ cap = ABSOLUTE_MAX_ROWS
    /\ stmt # sql
    /\ WordAtCI(Strip(sql), 1, KwSelect)
    /\ stmt = InsertTop(Strip(sql), 6, ABSOLUTE_MAX_ROWS)
    /\ sent = <<stmt>>

\* C12: every statement a call submits is the caller's text: as it was given
\* for execute_raw and for execute without a positive cap, and for execute
\* with a positive cap either as it was given or, outer whitespace trimmed,
\* with the one clause TOP <cap> inserted right after a SELECT keyword of
\* it; comments and everything else of the text are sent as given.
C12_SentIsValidatedText ==
    \A i \in 1..Len(sent) :
        /\ ~BlockedIn(_strip_comments(sql))
        /\ kind = "execute_raw" => sent[i] = sql
        /\ (kind = "execute" /\ max_rows <= 0) => sent[i] = sql
        /\ (kind = "execute" /\ max_rows > 0)
           => \/ sent[i] = sql
              \/ \E pos \in SelectPositions(Strip(sql)) :
                    sent[i] = InsertTop(Strip(sql), pos + 5, cap)

\* C12 witness: execute has sent a text that carries a comment, trimmed and
\* with the cap inserted, the comment still in it.
C12_Witness ==
    /\ pc = "done"
    /\ kind = "execute"
    /\ outcome = "ok"
    /\ Len(sent) = 1
    /\ sent[1] # sql
    /\ _strip_comments(sql) # sql
    /\ \E i \in 1..Len(sent[1]) : MatchAt(sent[1], i, <<"/", "*", "c", "*", "/">>)

\* C20: the object holds at most one handle, and at every instant the
\* handles that it has opened and not given to close() are the one it holds
\* and no other: a handle that is replaced has had close() called on it, and
\* has been dropped, before the next one is opened.
C20_OneHandle ==
    /\ unclosed = (IF conn = "none" THEN 0 ELSE 1)
    /\ peakUnclosed <= 1

\* C20 witness: a reconnect has replaced the handle of a lost connection by
\* a new one, the close() of the old one having raised.
C20_Witness ==
    /\ pc = "done"
    /\ retries = 1
    /\ lastClose = "raised"
    /\ conn = "live"
    /\ outcome = "ok"
    /\ Len(sent) = 2

\* C21: whenever _ensure_connection has returned a handle to
\* _execute_with_retry, the handle is a live one: not an absent one, and not
\* one on which a connection-class error has been caught already.
C21_EnsureNeverDead ==
    pc = "submit" => conn = "live"

\* C24: every step of _reconnect, with a handle to close (after a failed
\* submission) or without (from _ensure_connection), whatever close() did,
\* leaves the object with a new live handle, the only one open, or with no
\* handle at all, no handle open, and RuntimeError raised to the caller;
\* the old handle is never the one held afterwards.
C24_ReconnectDiscards ==
    [][(pc = "reconnect" \/ (pc = "ensure" /\ conn = "none"))
       => /\ conn' \in {"live", "none"}
          /\ conn' = "live"
             => /\ unclosed' = 1
                /\ outcome' # "ConnectRuntimeError"
                /\ pc' \in {"ensure", "submit"}
          /\ conn' = "none"
             => /\ unclosed' = 0
                /\ outcome' = "ConnectRuntimeError"
                /\ pc' = "done"]_vars

\* C24 witness: the close() of the lost handle raised, the connect after it
\* failed, and the call has raised RuntimeError with no handle held.
C24_Witness ==
    /\ pc = "done"
    /\ retries = 1
    /\ lastClose = "raised"
    /\ outcome = "ConnectRuntimeError"
    /\ conn = "none"
    /\ unclosed = 0

\* C28: a call that began with no handle, or with the handle of a lost
\* connection, that passed validation, and during which every connect
\* succeeded and every submission on a live handle returned its rows, has
\* made exactly one reconnect, holds a live handle, has submitted its
\* statement last on that handle, and returns the rows of the statement.
C28_RecoversWithoutRestart ==
    (pc = "done" /\ connAtStart # "live" /\ clean /\ outcome # "ValueError")
    => /\ outcome = "ok"
       /\ conn = "live"
       /\ reconnects = 1
       /\ Len(sent) = (IF connAtStart = "dead" THEN 2 ELSE 1)
       /\ sent[Len(sent)] = stmt
       /\ rows = RowsReturned(stmt)

\* C28 witness: the call before left the handle of a lost connection in
\* place; in this call the submission on it failed, the reconnect succeeded
\* and the second submission returned rows.
C28_Witness ==
    /\ pc = "done"
    /\ calls = 2
    /\ connAtStart = "dead"
    /\ clean
    /\ outcome = "ok"
    /\ retries = 1
    /\ rows > 0

(***************************************************************************)
(* Claims about the metadata cache.                                        *)
(***************************************************************************)

\* C6: however the callers of ensure_loaded interleave, as long as no
\* catalog query has raised, each catalog query is issued at most once, and
\* a caller whose ensure_loaded has returned finds the cache exactly as one
\* complete load fills it.
C6_ExactlyOneLoad ==
    qfails = 0
    => /\ tableQueries <= 1
       /\ fkQueries <= 1
       /\ \A c \in Callers : cpc[c] = "returned" => loaded /\ CacheFull

\* C7: once a load has failed (a catalog query raised) and no load is under
\* way, the cache is either not loaded and empty, or loaded and full.
C7_FailedLoadLeavesNothing ==
    ( /\ \E c \in Callers : cpc[c] = "raised"
      /\ \A c \in Callers : cpc[c] \in {"idle", "raised", "returned"} )
    => \/ ~loaded /\ CacheEmpty
       \/ loaded /\ CacheFull

\* C26: after a load that issued each catalog query once, none of which
\* raised, the edge list holds exactly one edge for each constraint of the
\* catalog rows (a constraint being a name in the schema of its parent
\* table), with the column pairs of the rows of that constraint, in row
\* order, and no other pair; and each edge stands once in the by-parent list
\* of its parent table and once in the by-child list of its child table.
C26_OneEdgePerConstraint ==
    (loaded /\ tableQueries = 1 /\ fkQueries = 1 /\ qfails = 0)
    => LET Key(r) == <<r.fk_name, r.parent[1]>>
           keys == {Key(catFks[i]) : i \in 1..Len(catFks)}
           RowsOf(k) == SelectSeq(catFks, LAMBDA r : Key(r) = k)
           PairsOf(k) == [i \in 1..Len(RowsOf(k)) |->
                             <<RowsOf(k)[i].pc, RowsOf(k)[i].cc>>]
           Count(l, e) == Cardinality({i \in 1..Len(l) : l[i] = e})
       IN  /\ Len(fks) = Cardinality(keys)
           /\ \A k \in keys :
                 \E j \in 1..Len(fks) :
                    /\ Key(fks[j]) = k
                    /\ fks[j].columns = PairsOf(k)
                    /\ fks[j].columns # <<>>
           /\ \A j \in 1..Len(fks) :
                 /\ Count(byParent[fks[j].parent], fks[j]) = 1
                 /\ Count(byChild[fks[j].child], fks[j]) = 1

\* C27: as long as ensure_loaded is called from one place at a time, each
\* table of the full-name map stands exactly once in the list of its bare
\* name and exactly once in the list of its schema, so that the count
\* get_schemas reports for a schema is the number of tables of that schema
\* in the full-name map.
C27_TablesIndexedOnce ==
    cpc[2] = "idle"
    => LET Count(l, e) == Cardinality({i \in 1..Len(l) : l[i] = e})
           get_schemas == [s \in Schemas |-> Len(bySchema[s])]
       IN  /\ \A t \in tables :
                 /\ Count(byName[t[2]], t) = 1
                 /\ Count(bySchema[t[1]], t) = 1
           /\ \A s \in Schemas :
                 get_schemas[s] = Cardinality({t \in tables : t[1] = s})

\* C22: once the loaded flag is set it stays set, and from then on no
\* step issues a catalog query or changes the full-name map, the bare-name
\* and schema indices, the edge list, the by-parent and by-child indices or
\* the adjacency.
C22_LoadedImmutable ==
    [][loaded
       => /\ loaded'
          /\ UNCHANGED <<tables, tlist, byName, bySchema, fks, byParent,
                         byChild, adjacency, tableQueries, fkQueries>>]_vars

\* C17: in every state in which the cache is loaded, for all tables X and
\* Y, Y is in adjacency[X] exactly when X is in adjacency[Y], and exactly
\* when some foreign key of the edge list has X and Y as its two ends, in
\* either direction (a foreign key of a table to itself puts the table into
\* its own adjacency).
C17_AdjacencySymmetric ==
    loaded
    => \A X \in DOMAIN adjacency, Y \in DOMAIN adjacency :
          /\ Y \in adjacency[X] <=> X \in adjacency[Y]
          /\ Y \in adjacency[X]
             <=> \E i \in 1..Len(fks) :
                    \/ fks[i].parent = X /\ fks[i].child = Y
                    \/ fks[i].parent = Y /\ fks[i].child = X

\* C17 witness: a loaded cache with a foreign key between two different
\* tables and a foreign key of a table to itself.
C17_Witness ==
    /\ loaded
    /\ \E i, j \in 1..Len(fks) :
          /\ fks[i].parent # fks[i].child
          /\ fks[j].parent = fks[j].child
          /\ fks[i].child \in adjacency[fks[i].parent]
          /\ fks[j].parent \in adjacency[fks[j].parent]

(***************************************************************************)
(* Claims about the lookups.                                               *)
(***************************************************************************)

\* C13: find_join_path between two ends that resolve to the same table
\* returns exactly one path, the table alone, whatever the foreign keys and
\* whatever max_depth (0 included), and the search is not run: nothing is
\* put into or popped from the queue and no path is recorded.
C13_SameTableOnePath ==
    (JoinPathDone /\ lstart = lend)
    => /\ lresult = << <<lstart[1]>> >>
       /\ pops = 0
       /\ queue = <<>> /\ visited = {} /\ paths = <<>>

\* C13 witness: such a call with max_depth 0 on a table that has a foreign
\* key to itself and foreign keys to other tables.
C13_Witness ==
    /\ JoinPathDone
    /\ lstart = lend
    /\ larg.n = 0
    /\ lstart[1] \in adjacency[lstart[1]]
    /\ Cardinality(adjacency[lstart[1]]) > 2
    /\ lresult = <<lstart>>

\* C14: for two different tables and max_depth k, every returned path has at
\* most k edges, and when the undirected foreign-key graph has a path of at
\* most k edges between them, the result is not empty and holds a path of
\* the least number of edges, also when more paths were recorded than are
\* returned.
C14_DepthBoundAndShortest ==
    (JoinPathDone /\ lstart # lend)
    => LET d == Distance(lstart[1], lend[1])
       IN  /\ \A i \in 1..Len(lresult) : Hops(lresult[i]) <= larg.n
           /\ (d >= 1 /\ d <= larg.n)
              => /\ lresult # <<>>
                 /\ \E i \in 1..Len(lresult) : Hops(lresult[i]) = d

\* C14 witness: the two ends are two edges apart, max_depth is 2, more than
\* ten paths were recorded, and the ten returned have two edges each.
C14_Witness ==
    /\ JoinPathDone
    /\ lstart # lend
    /\ larg.n = 2
    /\ Distance(lstart[1], lend[1]) = 2
    /\ Len(paths) > MaxPaths
    /\ Len(lresult) = MaxPaths
    /\ \A i \in 1..Len(lresult) : Hops(lresult[i]) = 2

\* C15: every path that find_join_path returns for two different tables has
\* the least number of edges that a path between them has in the undirected
\* foreign-key graph.
C15_ShortestOnly ==
    (JoinPathDone /\ lstart # lend)
    => \A i \in 1..Len(lresult) :
          Hops(lresult[i]) = Distance(lstart[1], lend[1])

\* C16: find_join_path returns at most ten paths; they are the first of the
\* recorded paths, in the order in which they were recorded; and the numbers
\* of edges never go down along the recorded paths, nor along the result.
C16_AtMostTenInOrder ==
    /\ \A i, j \in 1..Len(paths) : i < j => Hops(paths[i]) <= Hops(paths[j])
    /\ JoinPathDone
       => /\ Len(lresult) <= MaxPaths
          /\ \A i, j \in 1..Len(lresult) :
                i < j => Hops(lresult[i]) <= Hops(lresult[j])
          /\ lstart # lend
             => /\ Len(lresult) = Min(Len(paths), MaxPaths)
                /\ lresult = SubSeq(paths, 1, Len(lresult))

\* C16 witness: more than ten paths were recorded, ten are returned, the
\* first with one edge and the others with two.
C16_Witness ==
    /\ JoinPathDone
    /\ Len(paths) > MaxPaths
    /\ Len(lresult) = MaxPaths
    /\ Hops(lresult[1]) = 1
    /\ \A i \in 2..MaxPaths : Hops(lresult[i]) = 2
    /\ lresult[1] = <<lstart[1], lend[1]>>

\* C18: resolve_table with a schema name returns the table of that schema
\* and name, or None, never a table of another schema; without one (None or
\* the empty string) it returns Erp.<name> when that table exists, whatever
\* tables of that name other schemas have and wherever they stand in the
\* load order; otherwise the table of that bare name that was loaded first;
\* and None when no schema has the name.
C18_ResolvePrefersDefault ==
    (lpc = "done" /\ larg.op = "resolve_table")
    => LET name == larg.a
           schema == larg.sa
           named == {i \in 1..Len(tlist) : tlist[i][2] = name}
       IN  IF schema \notin {NoneArg, ""}
           THEN lresult = (IF <<schema, name>> \in tables
                           THEN << <<schema, name>> >> ELSE <<>>)
           ELSE IF <<"Erp", name>> \in tables
           THEN lresult = << <<"Erp", name>> >>
           ELSE IF named = {} THEN lresult = <<>>
           ELSE lresult = <<tlist[SetMin(named)]>>

\* C18 witness: a bare name was resolved to the table of schema Erp although
\* a table of that name in another schema was loaded before it.
C18_Witness ==
    /\ lpc = "done"
    /\ larg.op = "resolve_table"
    /\ larg.sa = NoneArg
    /\ lresult = << <<"Erp", larg.a>> >>
    /\ \E i, j \in 1..Len(tlist) :
          /\ i < j
          /\ tlist[i][2] = larg.a /\ tlist[i][1] # "Erp"
          /\ tlist[j] = <<"Erp", larg.a>>

\* C19: search_tables with limit >= 0 returns at most limit tables, each with
\* a name that contains the query (case ignored) and of the given schema if
\* one is given, no table twice, the exact matches first, then the prefix
\* matches by name, then the other matches by name; and a matching table is
\* left out only when limit tables are returned, none of them of a bucket
\* after its own.
C19_SearchRanked ==
    (lpc = "done" /\ larg.op = "search_tables" /\ larg.n >= 0)
    => LET q == Lower(larg.a)
           r == lresult
           Rank(t) == IF Lower(t[2]) = q THEN 1
                      ELSE IF StartsWith(Lower(t[2]), q) THEN 2
                      ELSE IF Contains(Lower(t[2]), q) THEN 3
                      ELSE 0
           InScope(t) == Given(larg.sa) => t[1] = larg.sa
           matches == {t \in tables : InScope(t) /\ Rank(t) > 0}
       IN  /\ Len(r) <= larg.n
           /\ \A i \in 1..Len(r) : r[i] \in matches
           /\ \A i, j \in 1..Len(r) : i < j => r[i] # r[j]
           /\ \A i, j \in 1..Len(r) :
                 i < j => /\ Rank(r[i]) <= Rank(r[j])
                          /\ (Rank(r[i]) = Rank(r[j]) /\ Rank(r[i]) >= 2)
                             => ~StrLess(r[j][2], r[i][2])
           /\ \A t \in matches \ Range(r) :
                 /\ Len(r) = larg.n
                 /\ \A i \in 1..Len(r) : Rank(r[i]) <= Rank(t)

\* C25: every path that find_join_path returns for two different tables
\* starts at the first, ends at the second, holds no table twice, holds the
\* second table nowhere but at its end, and get_fk_between finds a foreign
\* key between every two tables that follow one another in it.
C25_PathsValidSimple ==
    (JoinPathDone /\ lstart # lend)
    => \A i \in 1..Len(lresult) :
          LET p == lresult[i]
          IN  /\ Len(p) >= 2
              /\ p[1] = lstart[1]
              /\ p[Len(p)] = lend[1]
              /\ \A j, k \in 1..Len(p) : j < k => p[j] # p[k]
              /\ \A j \in 1..(Len(p) - 1) :
                    /\ p[j] # lend[1]
                    /\ get_fk_between(fks, p[j], p[j + 1]) # <<>>

\* C25 witness: a path of three joins was returned, between two tables that
\* also have a foreign key on themselves or lie on a cycle.
C25_Witness ==
    /\ JoinPathDone
    /\ lstart # lend
    /\ \E i \in 1..Len(lresult) : Hops(lresult[i]) = 3
    /\ \E x \in visited : x \in DictGet(adjacency, x, {})

\* C29: in every call of find_join_path, whatever max_depth, the entries
\* ever put on the queue (those popped and those waiting) are one for each
\* visited table, each ending at its table, none at the target, so that the
\* loop pops at most as many entries as the graph has tables; and the call,
\* once in its loop, returns.
C29_QueueBounded ==
    lpc = "bfs"
    => /\ pops + Len(queue) = Cardinality(visited)
       /\ lend[1] \notin visited
       /\ \A i \in 1..Len(queue) :
             LET p == queue[i].path IN p[Len(p)] \in visited
       /\ \A i, j \in 1..Len(queue) :
             LET p == queue[i].path
                 q == queue[j].path
             IN  i # j => p[Len(p)] # q[Len(q)]
       /\ visited \subseteq
             ({lstart[1]} \cup UNION {{fks[i].parent, fks[i].child} :
                                        i \in 1..Len(fks)})

C29_JoinPathTerminates ==
    /\ []C29_QueueBounded
    /\ (lpc = "bfs") ~> (lpc = "done")

\* C29 witness: a call with the large max_depth, on a graph with a cycle
\* through the start and a foreign key of a table on itself, has returned
\* after visiting three tables other than the target.
C29_Witness ==
    /\ JoinPathDone
    /\ larg.n = LargeDepthArg
    /\ pops = 3
    /\ \E x \in visited : x \in DictGet(adjacency, x, {})
    /\ \E i \in 1..Len(paths) : Hops(paths[i]) >= 3

(***************************************************************************)
(* Claims about the standalone server.                                     *)
(***************************************************************************)

\* C30: a call of _execute_sync submits its statement at most MAX_RETRIES
\* times, each time on a connection opened for that attempt; when it returns
\* or raises, conn.close() has been called on every connection it opened;
\* what it returns are the rows of the first attempt whose submission
\* succeeded, and it raises ConnectionError only when five attempts have
\* failed one after the other, none of them having fetched its rows.
C30_FirstSuccessReturned ==
    /\ ssubmits <= MAX_RETRIES
    /\ ssubmits <= sopened
    /\ spc = "execute" => (shandle = "open" /\ sopened = sclosed + scloseRaised + 1)
    /\ spc = "done"
       => /\ sopened = sclosed + scloseRaised
          /\ shandle # "open"
          /\ soutcome = "rows"
             => /\ sfirstAt = sattempt + 1
                /\ sresult = sfirst
          /\ soutcome = "ConnectionError"
             => /\ sattempt + 1 = MAX_RETRIES
                /\ sfirstAt = 0

====
